---------------------------- MODULE Spec2Model ----------------------------
(***************************************************************************)
(* Model of the fix-resolution engine of claude-code-quality-hook.         *)
(*                                                                         *)
(*   Spec          ClaudeCodeFixer.batch_fix_files                         *)
(*                 (src/claude_code_fixer.py): the per-file session        *)
(*                 _fix_single_file with its worker pool, the worktree     *)
(*                 registry and the merge step, for one file.              *)
(*   SpecBatch     the same for a batch with two full sessions.            *)
(*   SpecMain      the iterative fixing loop of main (src/quality-hook.py),*)
(*                 with batch_fix_files taken as one step.                 *)
(*   SpecMainLive  SpecMain with weak fairness of main's steps.            *)
(*   SpecCluster   ClaudeCodeFixer.cluster_issues called twice on the same *)
(*                 issues, listed in the same or in another order.         *)
(*   SpecPredict   predict_simple_fix on one issue and one file content.   *)
(*   SpecPass      the PREDICT pass of _fix_single_file over the issues of *)
(*                 one lint.                                               *)
(*   SpecCascade   the hook processes and the agent processes they start,  *)
(*                 with the environment each one is given.                 *)
(*   SpecMainRaise SpecMain with the early returns and the exception       *)
(*                 handlers of main.                                       *)
(*   SpecAutoFix   AutoFixer.run_auto_fix (src/auto_fix.py) on one file.   *)
(*                                                                         *)
(* File content is a set of edit identifiers: the content holds an edit    *)
(* when the change that resolves that issue is present in the text.  The   *)
(* committed revision (HEAD) of a file is taken to be its on-disk content  *)
(* when the session starts.                                                *)
(***************************************************************************)
EXTENDS Integers, Sequences, FiniteSets

VARIABLES
    cfg,               \* claude_code configuration read by __init__
    batch,             \* file_issues argument of batch_fix_files (the files)
    bidx,              \* number of files of the batch already processed
    pc,                \* position of the batch_fix_files / _fix_single_file thread
    fix_attempts,      \* self._fix_attempts
    disk,              \* content of each real file on disk
    results,           \* results list of batch_fix_files
    original_content,  \* local original_content
    file_content,      \* local file_content
    predicted,         \* edits staged in predicted_fixes
    clusters,          \* local clusters
    att,               \* one record per submitted future
    collected,         \* futures already taken from as_completed, in order
    active_worktrees,  \* self._active_worktrees (the paths are unique)
    existing,          \* worktrees that exist on disk
    discards,          \* calls of _cleanup_worktree per worktree
    merge_log,         \* what the last call of _merge_worktree_fixes did
    mcfg,              \* configuration read by main
    mpc,               \* position of main
    iteration,         \* local iteration of main
    lint,              \* local results of main: per file its outstanding issues
    issues_before,     \* local issues_before
    fix_results,       \* local fix_results: per auto-fixed file its 'fixed'
    claude_results,    \* local claude_results: per file its 'success'
    agent_runs,        \* per file: executions of the agent-based fix path
    exit_code,         \* return value of main
    left_by,           \* the way the while loop of main, or main, was left
    reported,          \* number of issues listed in the output of main
    merge_failed,      \* files whose session of the iteration failed to merge
    issue_lists,       \* issues arguments of two calls of cluster_issues
    cluster_cfg,       \* the clustering settings of the fixer for those calls
    returned_clusters, \* what the calls made so far have returned
    predict_cfg,       \* self.predict_simple_fixes of the fixer that predicts
    predict_issue,     \* issue argument of the calls of predict_simple_fix
    predict_content,   \* file_content argument of the first of those calls
    predictions,       \* what the calls made so far have returned
    pass_issues,       \* issues argument of _fix_single_file, for its first loop
    pass_content,      \* local file_content during that loop
    pass_origin,       \* per line of pass_content: its line number in the
                       \* content that was linted (0: a line put in since)
    predicted_fixes,   \* local predicted_fixes: the issue, and the line marked
    remaining_issues,  \* local remaining_issues
    procs,             \* the hook runs and the agent runs they start, as a
                       \* tree of processes with their environment
    af_pc,             \* position of run_auto_fix
    af_file,           \* content of the file run_auto_fix is called for
    af_before,         \* that content when run_auto_fix was called
    af_backup_path,    \* local backup_path: whether create_backup gave a path
    af_backup,         \* content of the backup file
    af_original,       \* local original_content
    af_result          \* what run_auto_fix has returned

fixerVars == <<cfg, batch, bidx, pc, fix_attempts, disk, results,
               original_content, file_content, predicted, clusters, att,
               collected, active_worktrees, existing, discards, merge_log>>

mainVars == <<mcfg, mpc, iteration, lint, issues_before, fix_results,
              claude_results, agent_runs, exit_code, left_by, reported,
              merge_failed>>

clusterVars == <<issue_lists, cluster_cfg, returned_clusters>>

predictVars == <<predict_cfg, predict_issue, predict_content, predictions>>

passVars == <<pass_issues, pass_content, pass_origin, predicted_fixes,
              remaining_issues>>

\* the arguments and return values of the functions called on their own
autoFixVars == <<af_pc, af_file, af_before, af_backup_path, af_backup,
                 af_original, af_result>>

callVars == <<clusterVars, predictVars, passVars, procs, autoFixVars>>

vars == <<fixerVars, mainVars, callVars>>

----------------------------------------------------------------------------
(* Bounds of the model *)

MaxIssues == 2
MaxIterations == 3
MaxClusterIssues == 3

(* Program constants *)

DefaultClusterDistance == 5
DefaultMaxIssuesPerCluster == 5
DefaultMaxWorkers == 10
DefaultMaxWorktrees == 10

Files == {1, 2}
\* lines that lie farther apart than cluster_distance
LineGap == DefaultClusterDistance + 1
IssueLines == {1 + LineGap * (i - 1) : i \in 1..MaxIssues}

Min(a, b) == IF a < b THEN a ELSE b

RECURSIVE SeqToSet(_)
SeqToSet(s) == IF s = <<>> THEN {} ELSE {Head(s)} \cup SeqToSet(Tail(s))

----------------------------------------------------------------------------
(* Issues and clusters *)

\* An issue of the session input.  id is its position in the issue list,
\* pred tells whether predict_simple_fix returns content for it.
IssueSeqs(n) ==
    {s \in [1..n -> [id : 1..n, line : IssueLines, pred : BOOLEAN]] :
        /\ \A i \in 1..n : s[i].id = i
        /\ \A i \in 1..n : \A j \in 1..n : i < j => s[i].line <= s[j].line}

IssueInputs == UNION {IssueSeqs(n) : n \in 0..MaxIssues}

\* sorted(issues, key=line): stable insertion sort
RECURSIVE InsertByLine(_, _)
InsertByLine(s, x) ==
    IF s = <<>> THEN <<x>>
    ELSE IF x.line < Head(s).line THEN <<x>> \o s
    ELSE <<Head(s)>> \o InsertByLine(Tail(s), x)

RECURSIVE SortByLine(_)
SortByLine(s) ==
    IF s = <<>> THEN <<>>
    ELSE InsertByLine(SortByLine(SubSeq(s, 1, Len(s) - 1)), s[Len(s)])

MinLine(s) == CHOOSE m \in {s[i].line : i \in 1..Len(s)} :
                  \A i \in 1..Len(s) : m <= s[i].line
MaxLine(s) == CHOOSE m \in {s[i].line : i \in 1..Len(s)} :
                  \A i \in 1..Len(s) : m >= s[i].line

CreateCluster(s) ==
    [issues |-> s, start_line |-> MinLine(s), end_line |-> MaxLine(s)]

\* The loop of _cluster_by_proximity over the sorted issues: done are the
\* clusters already closed, cur is current_cluster.
RECURSIVE ProximityLoop(_, _, _)
ProximityLoop(rest, cur, done) ==
    IF rest = <<>>
    THEN IF cur = <<>> THEN done ELSE Append(done, CreateCluster(cur))
    ELSE LET issue == Head(rest) IN
         IF cur = <<>>
         THEN ProximityLoop(Tail(rest), <<issue>>, done)
         ELSE IF /\ issue.line - cur[Len(cur)].line <= DefaultClusterDistance
                 /\ Len(cur) < DefaultMaxIssuesPerCluster
         THEN ProximityLoop(Tail(rest), Append(cur, issue), done)
         ELSE ProximityLoop(Tail(rest), <<issue>>,
                            Append(done, CreateCluster(cur)))

ClusterByProximity(iss) == ProximityLoop(SortByLine(iss), <<>>, <<>>)

\* cluster_issues under the default configuration (batching on, proximity)
ClusterIssues(iss) == ClusterByProximity(iss)

\* The edit that resolves issue i of session number s
EditId(s, i) == (s - 1) * MaxIssues + i

EditsOf(s, iss) == {EditId(s, iss[i].id) : i \in 1..Len(iss)}

\* The pass of _fix_single_file over the issues with predict_simple_fix
PredictedOf(iss) == SelectSeq(iss, LAMBDA x : x.pred)
RemainingOf(iss) == SelectSeq(iss, LAMBDA x : ~x.pred)

----------------------------------------------------------------------------
(* Configuration of the fixer (ClaudeCodeFixer.__init__) *)

\* "unknown" stands for any other value of worktree_merge_strategy
MergeStrategies == {"claude", "sequential", "octopus", "unknown"}

\* git_root stands for _get_git_root() finding a repository.  Settings that
\* are not read under a configuration keep their default there: the worktree
\* settings off the worktree path, max_workers when one future is submitted.
FixerConfigs ==
    {c \in [use_git_worktrees : BOOLEAN, git_root : BOOLEAN,
            cleanup_worktrees : BOOLEAN,
            worktree_merge_strategy : MergeStrategies,
            max_fix_attempts : {1, 2},
            max_workers : {1, DefaultMaxWorkers},
            max_worktrees : {1, DefaultMaxWorktrees}] :
        /\ ~c.use_git_worktrees => c.git_root
        /\ ~(c.use_git_worktrees /\ c.git_root) =>
              /\ c.cleanup_worktrees
              /\ c.worktree_merge_strategy = "claude"
              /\ c.max_worktrees = DefaultMaxWorktrees
        /\ c.max_worktrees = 1 => c.max_workers = DefaultMaxWorkers}

\* the condition "self.use_git_worktrees and git_root" of _fix_single_file
WorktreeMode == cfg.use_git_worktrees /\ cfg.git_root

\* The files of the batch.  Spec: one file, or the same file twice under an
\* attempt budget of one.  SpecBatch: two files, or the same file twice under
\* a budget that admits both requests.
BatchInputs == {<<1>>, <<1, 1>>}
LongBatchInputs == {<<1, 1>>, <<1, 2>>}
BatchLen ==
    CHOOSE n \in {Len(b) : b \in BatchInputs \cup LongBatchInputs} :
        \A b \in BatchInputs \cup LongBatchInputs : Len(b) <= n

WsBound == BatchLen * MaxIssues
\* edit 0 stands for conflict markers left in the file by a failed git merge
ConflictMark == 0

\* A future and, once done, the result dictionary it holds: has_wt is the
\* presence of the key 'worktree_path', has_err of the key 'error'.  ws is
\* the worktree the attempt made (0: none) and wt_file the target file in it,
\* snap what the agent has read of the real file.
NoAttempt ==
    [st |-> "queued", ws |-> 0, wt_file |-> {}, snap |-> {},
     success |-> FALSE, has_wt |-> FALSE, patch |-> {}, fixed |-> {},
     has_err |-> FALSE, edit |-> {}, cause |-> ""]

----------------------------------------------------------------------------
(* The worktree registry *)

\* reg: the registry, ex: the worktrees on disk, dc: the calls of
\* _cleanup_worktree so far
Registry == [reg |-> active_worktrees, ex |-> existing, dc |-> discards]

\* a registration that writes back the registry without the other paths
RegisterAlone(reg, ws) == {ws}

\* self._active_worktrees.append(str(worktree_path))
Register(reg, ws) == reg \cup {ws}

\* a discard that, for a path that is not registered, unregisters another
CleanupSomeOther(r, ws) ==
    [reg |-> IF ws \in r.reg \/ r.reg = {} THEN r.reg \ {ws}
             ELSE r.reg \ {CHOOSE x \in r.reg : TRUE},
     ex  |-> r.ex \ {ws},
     dc  |-> [r.dc EXCEPT ![ws] = @ + 1]]

\* _cleanup_worktree: unregister, git worktree remove --force, rmtree
CleanupWorktree(r, ws) ==
    [reg |-> r.reg \ {ws},
     ex  |-> r.ex \ {ws},
     dc  |-> [r.dc EXCEPT ![ws] = @ + 1]]

\* _cleanup_worktree for each path of a collection
RECURSIVE CleanupEach(_, _)
CleanupEach(r, paths) ==
    IF paths = {} THEN r
    ELSE LET w == CHOOSE x \in paths : TRUE
         IN CleanupEach(CleanupWorktree(r, w), paths \ {w})

\* a sweep that clears the registry and removes nothing
ClearRegistryOnly(r) == [r EXCEPT !.reg = {}]

\* cleanup_all_worktrees: sweep a copy of the registry, then clear it
CleanupAllWorktrees(r) ==
    [CleanupEach(r, r.reg) EXCEPT !.reg = {}]

\* the finally block of batch_fix_files
BatchFinallySweep(r) ==
    IF cfg.cleanup_worktrees THEN CleanupAllWorktrees(r) ELSE r

\* the paths cleanup_all() of _fix_single_file visits: the results of
\* all_worktree_results that hold the key 'worktree_path'
WorktreePathsOf(coll) ==
    {att[k].ws : k \in {j \in SeqToSet(coll) : att[j].has_wt}}

CleanupAll(r, coll) == CleanupEach(r, WorktreePathsOf(coll))

SetRegistry(r) ==
    /\ active_worktrees' = r.reg
    /\ existing' = r.ex
    /\ discards' = r.dc

----------------------------------------------------------------------------
(* batch_fix_files and _fix_single_file *)

Session == bidx + 1
CurFile == batch[Session]

sessionVars == <<original_content, file_content, predicted, clusters,
                 att, collected>>
registryVars == <<active_worktrees, existing, discards>>

\* no call of _merge_worktree_fixes in the session
NoMerge == [called |-> FALSE]

FixerStart ==
    /\ bidx = 0
    /\ pc = "batch"
    /\ fix_attempts = [f \in Files |-> 0]
    /\ disk = [f \in Files |-> {}]
    /\ results = <<>>
    /\ original_content = {}
    /\ file_content = {}
    /\ predicted = {}
    /\ clusters = <<>>
    /\ att = <<>>
    /\ collected = <<>>
    /\ active_worktrees = {}
    /\ existing = {}
    /\ discards = [w \in 1..WsBound |-> 0]
    /\ merge_log = NoMerge

\* the locals of _fix_single_file are gone when it returns
DropLocals ==
    /\ original_content' = {}
    /\ file_content' = {}
    /\ predicted' = {}
    /\ clusters' = <<>>
    /\ att' = <<>>
    /\ collected' = <<>>

\* "Write final result" of _fix_single_file: orig is original_content, dsk
\* the file on disk at that point, fc the local file_content.
Finalize(f, orig, dsk, fc) ==
    IF fc # orig
    THEN /\ disk' = [disk EXCEPT ![f] = fc]
         /\ results' = Append(results, [file |-> f, success |-> TRUE,
                                        why |-> "fixed"])
    ELSE /\ disk' = [disk EXCEPT ![f] = dsk]
         /\ results' = Append(results, [file |-> f, success |-> FALSE,
                                        why |-> "no_change"])

\* a merge failure reported as a fix
MergeFailedAsFixed(f) == [file |-> f, success |-> TRUE, why |-> "merge_failed"]

\* what _fix_single_file returns when _merge_worktree_fixes has failed
MergeFailedResult(f) == [file |-> f, success |-> FALSE, why |-> "merge_failed"]

\* the guard "self._fix_attempts[file_path] > self.max_fix_attempts"
AttemptsExceeded(n) == n > cfg.max_fix_attempts

\* number of futures submitted for the clusters
FuturesFor(cl) ==
    IF WorktreeMode THEN Min(Len(cl), cfg.max_worktrees) ELSE Len(cl)

\* _fix_single_file from its entry to the submission of the futures (or to
\* its return when no issue is left for the agent)
StartSession ==
    /\ pc = "batch"
    /\ bidx < Len(batch)
    /\ \E iss \in IssueInputs :
        LET f == CurFile
            n == fix_attempts[f] + 1
            pf == EditsOf(Session, PredictedOf(iss))
            rem == RemainingOf(iss)
            fc == disk[f] \cup pf
            cl == ClusterIssues(rem)
        IN
        /\ fix_attempts' = [fix_attempts EXCEPT ![f] = n]
        /\ IF AttemptsExceeded(n)
           THEN /\ results' = Append(results, [file |-> f, success |-> FALSE,
                                               why |-> "max_attempts"])
                /\ bidx' = bidx + 1
                /\ UNCHANGED <<pc, disk, sessionVars>>
           ELSE IF rem = <<>>
           THEN /\ Finalize(f, disk[f], disk[f], fc)
                /\ DropLocals
                /\ bidx' = bidx + 1
                /\ pc' = pc
           ELSE /\ original_content' = disk[f]
                /\ predicted' = pf
                /\ file_content' = fc
                /\ collected' = <<>>
                /\ clusters' = cl
                /\ att' = [k \in 1..FuturesFor(cl) |-> NoAttempt]
                /\ pc' = "collect"
                /\ UNCHANGED <<disk, results, bidx>>
    /\ merge_log' = NoMerge
    /\ UNCHANGED <<cfg, batch, registryVars, mainVars, callVars>>

Running == {k \in DOMAIN att : att[k].st = "running"}

\* a pool with a worker for every cluster
WorkerPerCluster == Len(clusters)

\* ThreadPoolExecutor(max_workers=min(self.max_workers, len(clusters)))
PoolSize == Min(cfg.max_workers, Len(clusters))

CanStart(k) ==
    /\ pc = "collect"
    /\ k \in DOMAIN att
    /\ att[k].st = "queued"
    /\ Cardinality(Running) < PoolSize

ClusterEdits(k) == EditsOf(Session, clusters[k].issues)

\* a result {'success': False, 'cluster': cluster, 'error': ...}; cause
\* records what happened to the attempt
Failure(a, c) ==
    [a EXCEPT !.st = "done", !.success = FALSE, !.has_err = TRUE,
              !.snap = {}, !.cause = c]

\* The path f"linter-fix-{fingerprint}-{uuid}" made for future k: unique
WorktreeName(k) == (Session - 1) * MaxIssues + k

\* fix_cluster_with_worktree up to the start of the agent:
\* _create_worktree_for_cluster, the check that the file exists in the
\* worktree, and the write of the predicted fixes
WtCreate(k) ==
    /\ WorktreeMode
    /\ CanStart(k)
    /\ \E out \in {"created", "create_failed", "file_missing"} :
        LET w == WorktreeName(k)
            made == [Registry EXCEPT !.reg = Register(@, w), !.ex = @ \cup {w}]
        IN
        CASE out = "create_failed" ->
               /\ att' = [att EXCEPT ![k] = Failure(@, "create_failed")]
               /\ UNCHANGED registryVars
          [] out = "file_missing" ->
               /\ att' = [att EXCEPT ![k] =
                            Failure([@ EXCEPT !.ws = w], "file_missing")]
               /\ SetRegistry(CleanupWorktree(made, w))
          [] out = "created" ->
               /\ att' = [att EXCEPT ![k] =
                            [@ EXCEPT !.st = "running", !.ws = w,
                                      !.wt_file = IF predicted # {}
                                                  THEN file_content
                                                  ELSE original_content]]
               /\ SetRegistry(made)
    /\ UNCHANGED <<cfg, batch, bidx, pc, fix_attempts, disk, results,
                   original_content, file_content, predicted, clusters,
                   collected, mainVars, callVars,
                   merge_log>>

\* The result fix_cluster_with_worktree returns after the agent has exited
\* with status 0 and git diff has given its output
PatchedResult(a, content, patch, ed, c) ==
    [a EXCEPT !.st = "done", !.success = TRUE, !.has_wt = TRUE,
              !.wt_file = content, !.patch = patch, !.fixed = content,
              !.edit = ed, !.cause = c]

\* fix_cluster_with_worktree from the agent's exit to its return
WtFinish(k) ==
    /\ pc = "collect"
    /\ k \in DOMAIN att
    /\ att[k].st = "running"
    /\ att[k].ws # 0
    /\ \E out \in {"exit0_diff_ok", "exit0_diff_nonzero", "exit0_diff_raise",
                   "nonzero", "timeout"} :
        LET w == att[k].ws
            ed == ClusterEdits(k)
            content == att[k].wt_file \cup ed
        IN
        CASE out = "exit0_diff_ok" ->
               /\ att' = [att EXCEPT ![k] =
                     PatchedResult(@, content, content \ original_content,
                                   ed, "ok")]
               /\ UNCHANGED registryVars
          [] out = "exit0_diff_nonzero" ->
               /\ att' = [att EXCEPT ![k] =
                     PatchedResult(@, content, {}, ed, "diff_nonzero")]
               /\ UNCHANGED registryVars
          [] out = "exit0_diff_raise" ->
               /\ att' = [att EXCEPT ![k] = Failure(@, "diff_raise")]
               /\ SetRegistry(CleanupWorktree(Registry, w))
          [] out \in {"nonzero", "timeout"} ->
               /\ att' = [att EXCEPT ![k] = Failure(@, "agent_failed")]
               /\ UNCHANGED registryVars
    /\ UNCHANGED <<cfg, batch, bidx, pc, fix_attempts, disk, results,
                   original_content, file_content, predicted, clusters,
                   collected, mainVars, callVars,
                   merge_log>>

\* fix_cluster_with_claude on the real file: the agent starts and reads it
PlainStart(k) ==
    /\ ~WorktreeMode
    /\ CanStart(k)
    /\ att' = [att EXCEPT ![k] =
                 [@ EXCEPT !.st = "running", !.snap = disk[CurFile]]]
    /\ UNCHANGED <<cfg, batch, bidx, pc, fix_attempts, disk, results,
                   original_content, file_content, predicted, clusters,
                   collected, registryVars, mainVars, callVars,
                   merge_log>>

\* fix_cluster_with_claude on the real file: the agent writes its edit over
\* what it read and exits; on status 0 the file is read back.  An agent
\* that fails or is killed may have written already.
PlainFinish(k) ==
    /\ pc = "collect"
    /\ k \in DOMAIN att
    /\ att[k].st = "running"
    /\ att[k].ws = 0
    /\ \E out \in {"exit0", "nonzero", "timeout"} : \E wrote \in BOOLEAN :
        LET f == CurFile
            ed == ClusterEdits(k)
            after == IF wrote THEN att[k].snap \cup ed ELSE disk[f]
        IN
        /\ out = "exit0" => wrote
        /\ disk' = [disk EXCEPT ![f] = after]
        /\ att' = [att EXCEPT ![k] =
                     IF out = "exit0"
                     THEN [@ EXCEPT !.st = "done", !.success = TRUE,
                                    !.fixed = after, !.edit = ed,
                                    !.snap = {}, !.cause = "ok"]
                     ELSE Failure(@, "agent_failed")]
    /\ UNCHANGED <<cfg, batch, bidx, pc, fix_attempts, results,
                   original_content, file_content, predicted, clusters,
                   collected, registryVars, mainVars, callVars,
                   merge_log>>

\* a loop that is left at the first delivered future
FirstDelivered(coll) == Len(coll) >= 1

\* "for future in as_completed(futures)" has delivered every future
LoopExhausted(coll) == Len(coll) = Len(att)

\* one round of the as_completed loop: a finished future is taken
Collect(k) ==
    /\ pc = "collect"
    /\ k \in DOMAIN att
    /\ att[k].st = "done"
    /\ k \notin SeqToSet(collected)
    /\ collected' = Append(collected, k)
    /\ pc' = IF LoopExhausted(collected') THEN "merge" ELSE "collect"
    /\ UNCHANGED <<cfg, batch, bidx, fix_attempts, disk, results,
                   original_content, file_content, predicted, clusters, att,
                   registryVars, mainVars, callVars,
                   merge_log>>

----------------------------------------------------------------------------
(* The merge step *)

\* sorted(cluster_results, key=start_line): stable insertion sort of the
\* futures' indices
RECURSIVE InsertByStart(_, _)
InsertByStart(s, k) ==
    IF s = <<>> THEN <<k>>
    ELSE IF clusters[k].start_line < clusters[Head(s)].start_line
    THEN <<k>> \o s
    ELSE <<Head(s)>> \o InsertByStart(Tail(s), k)

\* the results in the order in which they were collected
AsCollected(s) == s

RECURSIVE SortByStart(_)
SortByStart(s) ==
    IF s = <<>> THEN <<>>
    ELSE InsertByStart(SortByStart(SubSeq(s, 1, Len(s) - 1)), s[Len(s)])

UnionOf(S) == UNION S

\* the ways the agent run of _merge_with_claude ends: returncode 0, another
\* returncode, subprocess.TimeoutExpired, any other exception
AgentOutcomes == {"exit0", "nonzero", "timeout", "raise"}

\* a verdict that takes a run that ends without an exception as a merge
AgentReturned(agent) == agent \in {"exit0", "nonzero"}

\* "result.returncode == 0" with no exception raised
AgentMerged(agent) == agent = "exit0"

\* _merge_with_claude: cur is the real file, agent the exit of the agent.
\* An agent that exits with status 0 has written the file that holds every
\* fixed version it was given.
\* given are the fixed versions put into the prompt, by cluster start line.
MergeWithClaude(cur, sorted, agent) ==
    LET fv == {k \in SeqToSet(sorted) :
                  att[k].success /\ att[k].has_wt /\ att[k].ws \in existing}
    IN IF fv = {}
       THEN [ok |-> FALSE, content |-> cur, agent |-> <<>>, given |-> {}]
       ELSE [ok |-> AgentMerged(agent),
             content |-> IF AgentMerged(agent)
                         THEN cur \cup UnionOf({att[k].wt_file : k \in fv})
                         ELSE cur,
             agent |-> <<agent>>,
             given |-> {clusters[k].start_line : k \in fv}]

\* the loop of the sequential strategy: git apply --3way of each non-empty
\* patch; failAt is the position whose git apply exits non-zero (0: none);
\* tried are the start lines of the clusters whose patch git apply was run on
RECURSIVE ApplyPatches(_, _, _, _)
ApplyPatches(cur, rest, pos, failAt) ==
    IF rest = <<>> THEN [failed |-> FALSE, content |-> cur, tried |-> <<>>]
    ELSE LET k == Head(rest) IN
         IF att[k].patch # {}
         THEN IF pos = failAt
              THEN [failed |-> TRUE, content |-> cur,
                    tried |-> <<clusters[k].start_line>>]
              ELSE LET ap == ApplyPatches(cur \cup att[k].patch, Tail(rest),
                                          pos + 1, failAt)
                   IN [ap EXCEPT !.tried = <<clusters[k].start_line>> \o @]
         ELSE ApplyPatches(cur, Tail(rest), pos + 1, failAt)

\* an octopus strategy that takes whatever git merge left as merged
MergeOctopusAnyway(cur, sorted, oct) ==
    [ok |-> TRUE, content |-> cur, git_merge |-> <<oct>>]

\* the octopus strategy: oct is the outcome of git merge in the base tree
MergeOctopus(cur, sorted, oct) ==
    LET br == {k \in SeqToSet(sorted) : att[k].patch # {}} IN
    IF br = {} THEN [ok |-> TRUE, content |-> cur, git_merge |-> <<>>]
    ELSE IF oct = "ok"
    THEN [ok |-> TRUE, content |-> cur \cup UnionOf({att[k].patch : k \in br}),
          git_merge |-> <<oct>>]
    ELSE IF oct = "conflict"
    THEN [ok |-> FALSE, content |-> cur \cup {ConflictMark},
          git_merge |-> <<oct>>]
    ELSE [ok |-> FALSE, content |-> cur, git_merge |-> <<oct>>]

\* _merge_worktree_fixes
\* The record gives the verdict and the content of the real file, and of
\* what was done: agent the outcome of each agent merge run, given the fixed
\* versions handed to it, tried the git apply runs with failed telling
\* whether the last of them failed, git_merge the outcome of each git merge.
MergeWorktreeFixes(cur, cr, failAt, agent, oct) ==
    LET sorted == SortByStart(cr)
        none == [ok |-> TRUE, content |-> cur, agent |-> <<>>, given |-> {},
                 tried |-> <<>>, failed |-> FALSE, git_merge |-> <<>>]
    IN
    IF cr = <<>> THEN none
    ELSE IF cfg.worktree_merge_strategy = "claude"
    THEN LET m == MergeWithClaude(cur, sorted, agent) IN
         [none EXCEPT !.ok = m.ok, !.content = m.content, !.agent = m.agent,
                      !.given = m.given]
    ELSE IF cfg.worktree_merge_strategy = "sequential"
    THEN LET ap == ApplyPatches(cur, sorted, 1, failAt) IN
         IF ap.failed
         THEN LET m == MergeWithClaude(ap.content, sorted, agent) IN
              [none EXCEPT !.ok = m.ok, !.content = m.content,
                           !.agent = m.agent, !.given = m.given,
                           !.tried = ap.tried, !.failed = TRUE]
         ELSE [none EXCEPT !.content = ap.content, !.tried = ap.tried]
    ELSE IF cfg.worktree_merge_strategy = "octopus"
    THEN LET m == MergeOctopus(cur, sorted, oct) IN
         [none EXCEPT !.ok = m.ok, !.content = m.content,
                      !.git_merge = m.git_merge]
    ELSE none

\* What a call of _merge_worktree_fixes on the results cr did: m without
\* the content, with the start lines of the results it was given and of
\* those among them that carry a patch
MergeLog(m, cr) ==
    [called |-> TRUE, ok |-> m.ok, agent |-> m.agent, given |-> m.given,
     tried |-> m.tried, failed |-> m.failed, git_merge |-> m.git_merge,
     results |-> {clusters[k].start_line : k \in SeqToSet(cr)},
     patches |-> {clusters[k].start_line :
                     k \in {j \in SeqToSet(cr) : att[j].patch # {}}}]

\* _merge_cluster_fixes: the last successful fix
MergeClusterFixes(original, current, cf) ==
    IF cf # <<>> THEN att[cf[Len(cf)]].fixed ELSE current

\* the successful results collected before the first failed one
UntilFirstFailure(coll) ==
    LET bad == {i \in 1..Len(coll) : ~att[coll[i]].success}
    IN IF bad = {} THEN coll
       ELSE SubSeq(coll, 1, (CHOOSE i \in bad : \A j \in bad : i <= j) - 1)

\* cluster_results / cluster_fixes: the successful results, in the order the
\* futures were collected
SuccessfulResults(coll) == SelectSeq(coll, LAMBDA k : att[k].success)

\* _fix_single_file after the as_completed loop, worktree path: merge,
\* cleanup_all, final write, return
MergeWorktrees ==
    /\ pc = "merge"
    /\ WorktreeMode
    /\ LET f == CurFile
           cr == SuccessfulResults(collected)
           r1 == IF cfg.cleanup_worktrees
                 THEN CleanupAll(Registry, collected) ELSE Registry
       IN
       IF cr # <<>>
       THEN \E failAt \in 0..Len(cr) : \E agent \in AgentOutcomes :
            \E oct \in {"ok", "conflict", "refused"} :
               LET m == MergeWorktreeFixes(disk[f], cr, failAt, agent, oct)
                   r2 == IF cfg.cleanup_worktrees
                         THEN CleanupAll(r1, collected) ELSE r1
               IN
               /\ merge_log' = MergeLog(m, cr)
               /\ IF m.ok
                  THEN /\ Finalize(f, original_content, m.content, m.content)
                       /\ SetRegistry(r1)
                  ELSE /\ disk' = [disk EXCEPT ![f] = m.content]
                       /\ results' = Append(results, MergeFailedResult(f))
                       /\ SetRegistry(r2)
       ELSE /\ Finalize(f, original_content, disk[f], file_content)
            /\ SetRegistry(r1)
            /\ merge_log' = NoMerge
    /\ DropLocals
    /\ bidx' = bidx + 1
    /\ pc' = "batch"
    /\ UNCHANGED <<cfg, batch, fix_attempts, mainVars, callVars>>

\* _fix_single_file after the as_completed loop, in-memory path: merge,
\* final write, return
MergePlain ==
    /\ pc = "merge"
    /\ ~WorktreeMode
    /\ LET f == CurFile
           cf == SuccessfulResults(collected)
           fc == IF cf # <<>>
                 THEN MergeClusterFixes(original_content, file_content, cf)
                 ELSE file_content
       IN Finalize(f, original_content, disk[f], fc)
    /\ DropLocals
    /\ bidx' = bidx + 1
    /\ pc' = "batch"
    /\ UNCHANGED <<cfg, batch, fix_attempts, registryVars, mainVars, callVars,
                   merge_log>>

\* batch_fix_files after its loop: the finally block, then return
BatchReturn ==
    /\ pc = "batch"
    /\ bidx = Len(batch)
    /\ SetRegistry(BatchFinallySweep(Registry))
    /\ pc' = "returned"
    /\ UNCHANGED <<cfg, batch, bidx, fix_attempts, disk, results,
                   sessionVars, mainVars, callVars,
                   merge_log>>

MainIdle ==
    /\ mcfg = [max_fix_iterations |-> 0]
    /\ mpc = "off"
    /\ iteration = 0
    /\ lint = <<>>
    /\ issues_before = 0
    /\ fix_results = <<>>
    /\ claude_results = <<>>
    /\ agent_runs = [f \in Files |-> 0]
    /\ exit_code = -1
    /\ left_by = ""
    /\ reported = 0
    /\ merge_failed = {}

\* no call of cluster_issues is under study
ClusterIdle ==
    /\ issue_lists = <<>>
    /\ cluster_cfg = <<>>
    /\ returned_clusters = <<>>

PredictIdle ==
    /\ predict_cfg = <<>>
    /\ predict_issue = <<>>
    /\ predict_content = <<>>
    /\ predictions = <<>>

PassIdle ==
    /\ pass_issues = <<>>
    /\ pass_content = <<>>
    /\ pass_origin = <<>>
    /\ predicted_fixes = <<>>
    /\ remaining_issues = <<>>

\* no hook process is looked at
CascadeIdle == procs = <<>>

\* no file (or no backup file, no content read)
NoFile == -1

\* run_auto_fix is not called
AutoFixIdle ==
    /\ af_pc = "off"
    /\ af_file = NoFile
    /\ af_before = NoFile
    /\ af_backup_path = FALSE
    /\ af_backup = NoFile
    /\ af_original = NoFile
    /\ af_result = <<>>

CallsIdle ==
    ClusterIdle /\ PredictIdle /\ PassIdle /\ CascadeIdle /\ AutoFixIdle

FixerInit ==
    /\ cfg \in FixerConfigs
    /\ batch \in BatchInputs
    /\ cfg.max_fix_attempts = 1
    /\ FixerStart

LongBatchInit ==
    /\ cfg \in FixerConfigs
    /\ batch \in LongBatchInputs
    /\ cfg.max_fix_attempts = (IF batch = <<1, 1>> THEN 2 ELSE 1)
    /\ FixerStart

Init == FixerInit /\ MainIdle /\ CallsIdle

Worker ==
    \E k \in 1..MaxIssues :
        \/ WtCreate(k)
        \/ WtFinish(k)
        \/ PlainStart(k)
        \/ PlainFinish(k)
        \/ Collect(k)

Next ==
    \/ StartSession
    \/ Worker
    \/ MergeWorktrees
    \/ MergePlain
    \/ BatchReturn

Spec == Init /\ [][Next]_vars

InitBatch == LongBatchInit /\ MainIdle /\ CallsIdle

SpecBatch == InitBatch /\ [][Next]_vars

----------------------------------------------------------------------------
(* Properties of batch_fix_files / _fix_single_file *)

Done == {k \in DOMAIN att : att[k].st = "done"}
Succeeded == {k \in DOMAIN att : att[k].success}

\* the step in which _fix_single_file returns a result with success = True
\* after having dispatched attempts
ReturnsSuccess ==
    /\ pc = "merge"
    /\ Len(results') = Len(results) + 1
    /\ results'[Len(results')].success

\* the path the agent of attempt k works on
PathOf(k) ==
    IF att[k].ws # 0 THEN <<"worktree", att[k].ws>> ELSE <<"file", CurFile>>

\* a worktree that _create_worktree_for_cluster has made
Created(w) == w \in existing \/ discards[w] > 0

\* C1: when _fix_single_file returns success, the file holds every predicted
\* fix of the session and the edit of every attempt that reported success.
C1_NoFixDropped ==
    [][ReturnsSuccess =>
          (predicted \cup UnionOf({att[k].edit : k \in Succeeded}))
              \subseteq disk'[CurFile]]_vars

\* C2: no two attempts that run at the same time work on the same path.
C2_PrivateCopies ==
    \A j \in Running : \A k \in Running : j # k => PathOf(j) # PathOf(k)

\* C3: while the attempts of a session are dispatched and collected, the real
\* file on disk is as it was when the session read it.
C3_SingleWriter ==
    pc = "collect" => disk[CurFile] = original_content

C5_DiscardedExactlyOnce ==
    (cfg.cleanup_worktrees /\ pc \in {"batch", "returned"}) =>
        \A w \in 1..WsBound : Created(w) => discards[w] = 1 /\ w \notin existing

\* C6: once fix_cluster_with_worktree has returned without success, the
\* worktree it made no longer exists.
C6_WorktreeGoneAtReturn ==
    \A k \in Done :
        (att[k].ws # 0 /\ ~att[k].success) => att[k].ws \notin existing

\* C7: creation failure, missing file, agent failure and diff failure all
\* give a result with success = False and an error text.
C7_ErrorsGiveFailure ==
    \A k \in Done :
        att[k].cause \in {"create_failed", "file_missing", "agent_failed",
                          "diff_raise", "diff_nonzero"}
            => ~att[k].success /\ att[k].has_err

\* C8: the merge step is reached only when every submitted attempt has
\* completed and has been collected.
C8_MergeAfterAllAttempts ==
    pc = "merge" => Done = DOMAIN att /\ Len(collected) = Len(att)

C8_Witness ==
    /\ pc = "merge"
    /\ Len(att) >= 2
    /\ \E j \in DOMAIN att : att[j].success
    /\ \E k \in DOMAIN att : ~att[k].success

\* C16: at every moment the number of registered worktrees is at most
\* max_worktrees, over all the files of a batch (checked under
\* cleanup_worktrees, where every session discards what it collected).
C16_WorktreeQuota ==
    cfg.cleanup_worktrees => Cardinality(active_worktrees) <= cfg.max_worktrees

\* C17: from every registry the program reaches, a second _cleanup_worktree
\* of a path leaves the registry and the worktrees on disk as the first call
\* left them, and _cleanup_worktree of a path that is not registered leaves
\* the registry as it was.
C17_CleanupIdempotent ==
    \A w \in 1..WsBound :
        LET once == CleanupWorktree(Registry, w)
            twice == CleanupWorktree(once, w)
        IN /\ twice.reg = once.reg
           /\ twice.ex = once.ex
           /\ w \notin once.reg /\ w \notin once.ex
           /\ w \notin active_worktrees => once.reg = active_worktrees

\* a worktree has been discarded twice while another is still registered
C17_Witness ==
    \E w \in 1..WsBound :
        /\ discards[w] >= 2
        /\ w \notin active_worktrees
        /\ w \notin existing
        /\ active_worktrees # {}

\* C22: under the octopus strategy a git merge that fails makes
\* _merge_worktree_fixes return failure, and no call of it under this
\* strategy runs the agent merge.
C22_OctopusFailsHard ==
    (merge_log.called /\ cfg.worktree_merge_strategy = "octopus") =>
        /\ merge_log.agent = <<>>
        /\ merge_log.tried = <<>>
        /\ (merge_log.git_merge # <<>> /\ merge_log.git_merge[1] # "ok")
              => ~merge_log.ok

C22_Witness ==
    /\ merge_log.called
    /\ cfg.worktree_merge_strategy = "octopus"
    /\ merge_log.git_merge = <<"conflict">>
    /\ Cardinality(merge_log.patches) = 2
    /\ ~merge_log.ok

\* C23: under the sequential strategy git apply is run on the patches in
\* ascending order of cluster start line and on none after the first that
\* fails; when one fails the agent merge is run once on all the results and
\* its verdict is the verdict of the merge; when none fails the merge
\* succeeds and the agent merge is not run.
C23_SequentialPatch ==
    (merge_log.called /\ cfg.worktree_merge_strategy = "sequential") =>
        LET tried == merge_log.tried IN
        /\ \A i \in 1..(Len(tried) - 1) : tried[i] < tried[i + 1]
        /\ \A i \in 1..Len(tried) : tried[i] \in merge_log.patches
        /\ \A l \in merge_log.patches :
              (\E i \in 1..Len(tried) : l < tried[i])
                  => \E j \in 1..Len(tried) : tried[j] = l
        /\ merge_log.git_merge = <<>>
        /\ IF merge_log.failed
           THEN /\ Len(merge_log.agent) = 1
                /\ merge_log.given = merge_log.results
                /\ merge_log.ok <=> merge_log.agent[1] = "exit0"
           ELSE /\ Len(tried) = Cardinality(merge_log.patches)
                /\ merge_log.agent = <<>>
                /\ merge_log.ok

\* the first of two patches failed to apply and the agent merged both
C23_Witness ==
    /\ merge_log.called
    /\ cfg.worktree_merge_strategy = "sequential"
    /\ merge_log.failed
    /\ Len(merge_log.tried) = 1
    /\ Cardinality(merge_log.patches) = 2
    /\ \A l \in merge_log.patches : merge_log.tried[1] <= l
    /\ merge_log.ok

\* C24: under the agent-merge strategy every call of _merge_worktree_fixes
\* with a successful result runs the agent once, on all the results, and
\* returns success exactly when that run ends with exit status 0.
C24_AgentMergeVerdict ==
    (merge_log.called /\ cfg.worktree_merge_strategy = "claude") =>
        /\ merge_log.results # {}
        /\ Len(merge_log.agent) = 1
        /\ merge_log.given = merge_log.results
        /\ merge_log.ok <=> merge_log.agent[1] = "exit0"
        /\ merge_log.tried = <<>>
        /\ merge_log.git_merge = <<>>

C24_Witness ==
    /\ merge_log.called
    /\ cfg.worktree_merge_strategy = "claude"
    /\ merge_log.agent = <<"timeout">>
    /\ Cardinality(merge_log.results) = 2
    /\ ~merge_log.ok

\* C25: under a merge strategy name that is not known, a call of
\* _merge_worktree_fixes does what it does under the agent-merge strategy:
\* it runs the agent once on all the results and returns its verdict.
C25_UnknownMergeIsAgentMerge ==
    (merge_log.called /\ cfg.worktree_merge_strategy = "unknown") =>
        /\ Len(merge_log.agent) = 1
        /\ merge_log.given = merge_log.results
        /\ merge_log.ok <=> merge_log.agent[1] = "exit0"

\* C26: once the session has submitted its futures, there is one fix attempt
\* for each cluster the clusterer produced.
C26_EveryClusterDispatched ==
    pc \in {"collect", "merge"} => Len(att) = Len(clusters)

\* C27 (as stated): the pool of a session has min(max_workers, number of
\* clusters, max_worktrees) workers and no more attempts than that run at
\* the same time.
C27_PoolOfThreeLimits ==
    pc = "collect" =>
        LET limit == Min(Min(cfg.max_workers, Len(clusters)), cfg.max_worktrees)
        IN PoolSize = limit /\ Cardinality(Running) <= limit

\* C27 (amended): no more than min(max_workers, number of clusters) attempts
\* run at the same time, and on the worktree path no more than
\* max_worktrees, which is the number of futures submitted there.
C27_PoolOfTwoLimits ==
    pc = "collect" =>
        /\ Cardinality(Running) <= Min(cfg.max_workers, Len(clusters))
        /\ WorktreeMode =>
              /\ Len(att) <= cfg.max_worktrees
              /\ Cardinality(Running) <= cfg.max_worktrees

\* the one worker is busy while another cluster waits
C27_Witness ==
    /\ pc = "collect"
    /\ cfg.max_workers = 1
    /\ Len(clusters) = 2
    /\ Cardinality(Running) = 1
    /\ \E k \in DOMAIN att : att[k].st = "queued"

\* C28: while the attempts of a session run, a step of one attempt changes
\* no other attempt and the session goes on to the merge only when all are
\* done; at the merge the results taken as successful are those of all the
\* attempts that succeeded, and _merge_worktree_fixes is given all of them.
C28_NoCrossCancellation ==
    /\ [](pc = "merge" =>
             /\ Done = DOMAIN att
             /\ SeqToSet(SuccessfulResults(collected)) = Succeeded)
    /\ [][/\ (pc = "collect" /\ pc' = "collect") =>
               /\ DOMAIN att' = DOMAIN att
               /\ \A j \in DOMAIN att : \A k \in DOMAIN att :
                     (j # k /\ att'[j] # att[j]) => att'[k] = att[k]
               /\ \A k \in DOMAIN att :
                     /\ att[k].st = "done" => att'[k] = att[k]
                     /\ att[k].st = "running" => att'[k].st # "queued"
          /\ (pc = "merge" /\ WorktreeMode /\ Succeeded # {}) =>
               /\ merge_log'.called
               /\ merge_log'.results =
                      {clusters[k].start_line : k \in Succeeded}]_vars

\* an attempt failed and was collected first, its sibling succeeded
C28_Witness ==
    /\ pc = "merge"
    /\ Len(collected) = 2
    /\ att[collected[1]].cause = "agent_failed"
    /\ att[collected[2]].success

ReturnsFailure ==
    /\ Len(results') = Len(results) + 1
    /\ ~results'[Len(results')].success

\* C35 (as stated): when _fix_single_file returns a result without success,
\* the file on disk has the content it had when the call started (the
\* content read into original_content, or the content at the call for a
\* call that returns at its attempt guard).
C35_FailureLeavesFile ==
    [][ReturnsFailure =>
          LET f == results'[Len(results')].file
          IN disk'[f] = IF pc = "batch" THEN disk[f] ELSE original_content]_vars

----------------------------------------------------------------------------
(* main of quality-hook.py: the iterative fixing loop *)

\* file_paths: the files the hook event names
FilePaths == {1}

\* What lint_file returns for a file: n is len(result['issues']), nblock
\* the number of them of which is_blocking_issue holds.
LintResults ==
    {r \in [n : 0..MaxIssues, nblock : 0..MaxIssues] : r.nblock <= r.n}

\* result['success'] of lint_file: no issue
Passed(r) == r.n = 0

\* a loop without the test that ends it on a clean lint
NeverAllPass(l) == FALSE

\* all(result.get('success', True) for result in results)
AllPass(l) == \A f \in DOMAIN l : Passed(l[f])

FilesWithIssues(l) == {f \in DOMAIN l : ~Passed(l[f])}

RECURSIVE CountIssues(_, _)
CountIssues(l, fs) ==
    IF fs = {} THEN 0
    ELSE LET f == CHOOSE x \in fs : TRUE
         IN l[f].n + CountIssues(l, fs \ {f})

\* sum(len(r.get('issues', [])) for r in results)
IssueCount(l) == CountIssues(l, DOMAIN l)

\* a loop test that admits one more iteration
LoopGuardInclusive(i, m) == i <= m

\* while iteration < max_fix_iterations
LoopGuard(i, m) == i < m

\* an output that succeeds on a clean result only
PassesWhenClean(l) == IssueCount(l) = 0

\* format_output: success unless a blocking issue is among the results
FormatOutput(l) == ~\E f \in DOMAIN l : l[f].nblock > 0

RECURSIVE CountBlocking(_, _)
CountBlocking(l, fs) ==
    IF fs = {} THEN 0
    ELSE LET f == CHOOSE x \in fs : TRUE
         IN l[f].nblock + CountBlocking(l, fs \ {f})

\* len(blocking_issues) of format_output
BlockingCount(l) == CountBlocking(l, DOMAIN l)

\* a message that lists every issue
ListsAll(l) == IssueCount(l)

\* The issues the output of format_output lists one by one: the blocking
\* ones when there is one; the other messages give counts only
ListedIssues(l) == IF BlockingCount(l) > 0 THEN BlockingCount(l) ELSE 0

\* a test that ignores whether a fix was made
NoDecrease(fm, cfm, after, before) == after >= before

\* a test that lets an iteration without change pass
StrictIncrease(fm, cfm, after, before) == ~fm /\ ~cfm /\ after > before

\* "not fixes_made and not claude_fixes_made and issues_after >=
\* issues_before"
NoProgress(fm, cfm, after, before) == ~fm /\ ~cfm /\ after >= before

fixerRest == <<cfg, batch, bidx, pc, disk, results, sessionVars, registryVars,
               merge_log>>

MainInit ==
    /\ mcfg \in [max_fix_iterations : 0..MaxIterations]
    /\ mpc = "loop"
    /\ iteration = 0
    /\ lint = <<>>
    /\ issues_before = 0
    /\ fix_results = <<>>
    /\ claude_results = <<>>
    /\ agent_runs = [f \in Files |-> 0]
    /\ exit_code = -1
    /\ left_by = ""
    /\ reported = 0
    /\ merge_failed = {}

\* The fixer main constructs: only max_fix_attempts is read by this model
MainFixerInit ==
    /\ cfg \in {c \in FixerConfigs :
                   /\ c.git_root
                   /\ c.cleanup_worktrees
                   /\ c.worktree_merge_strategy = "claude"
                   /\ c.max_workers = DefaultMaxWorkers
                   /\ c.max_worktrees = DefaultMaxWorktrees}
    /\ batch = <<>>
    /\ FixerStart

\* the loop test, the lint of the iteration and the "all files pass" test
MainLint ==
    /\ mpc = "loop"
    /\ IF LoopGuard(iteration, mcfg.max_fix_iterations)
       THEN /\ iteration' = iteration + 1
            /\ IF iteration' > 1 /\ FilesWithIssues(lint) = {}
               THEN /\ mpc' = "format"
                    /\ left_by' = "nothing_to_lint"
                    /\ UNCHANGED <<lint, issues_before, fix_results>>
               ELSE \E r \in [(IF iteration' = 1 THEN FilePaths
                               ELSE FilesWithIssues(lint)) -> LintResults] :
                      /\ lint' = r
                      /\ IF AllPass(r)
                         THEN /\ mpc' = "format"
                              /\ left_by' = "all_pass"
                              /\ UNCHANGED <<issues_before, fix_results>>
                         ELSE /\ mpc' = "autofix"
                              /\ issues_before' = IssueCount(r)
                              /\ fix_results' = <<>>
                              /\ left_by' = left_by
       ELSE /\ mpc' = "format"
            /\ left_by' = "exhausted"
            /\ UNCHANGED <<iteration, lint, issues_before, fix_results>>
    /\ UNCHANGED <<mcfg, claude_results, agent_runs, exit_code, reported,
                   merge_failed, fixerVars, callVars>>

\* the auto-fix block: tried are the files run_auto_fix is called for, fixed
\* those it reports fixed, which are linted again
MainAutoFix ==
    /\ mpc = "autofix"
    /\ \E tried \in SUBSET FilesWithIssues(lint) : \E fixed \in SUBSET tried :
       \E r \in [fixed -> LintResults] :
          /\ fix_results' = [f \in tried |-> f \in fixed]
          /\ lint' = [f \in DOMAIN lint |-> IF f \in fixed THEN r[f] ELSE lint[f]]
    /\ claude_results' = <<>>
    /\ mpc' = "claude"
    /\ merge_failed' = {}
    /\ UNCHANGED <<mcfg, iteration, issues_before, agent_runs, exit_code,
                   left_by, reported, fixerVars, callVars>>

\* The agent block: a new ClaudeCodeFixer, should_use_claude per file,
\* batch_fix_files and the lint of the files it reports fixed.  enabled is
\* CLAUDE_CODE_ENABLED, avail the outcome of _is_claude_code_available,
\* complex the files with an issue that matches complex_patterns, ok the
\* files whose _fix_single_file returns success, mf those for which it
\* returns the result of a failed merge.
MainClaudeFix ==
    /\ mpc = "claude"
    /\ \E enabled \in BOOLEAN :
       IF enabled /\ ~AllPass(lint)
       THEN \E avail \in BOOLEAN : \E complex \in SUBSET FilesWithIssues(lint) :
            LET failed == {f \in DOMAIN fix_results : ~fix_results[f]}
                files_to_fix == {f \in FilesWithIssues(lint) :
                                    avail /\ (f \in failed \/ f \in complex)}
                fresh == [f \in Files |-> 0]
                counted == [f \in Files |->
                              IF f \in files_to_fix THEN fresh[f] + 1
                              ELSE fresh[f]]
                admitted == {f \in files_to_fix :
                                ~AttemptsExceeded(counted[f])}
            IN \E ok \in SUBSET admitted :
               \E mf \in SUBSET {f \in admitted \ ok : WorktreeMode} :
               LET res == [f \in files_to_fix |->
                             IF f \in mf THEN MergeFailedResult(f).success
                             ELSE f \in ok]
                   relint == {f \in files_to_fix : res[f]}
               IN \E r \in [relint -> LintResults] :
                  /\ fix_attempts' = counted
                  /\ agent_runs' = [f \in Files |->
                                      IF f \in admitted THEN agent_runs[f] + 1
                                      ELSE agent_runs[f]]
                  /\ claude_results' = res
                  /\ merge_failed' = mf
                  /\ lint' = [f \in DOMAIN lint |->
                                IF f \in relint THEN r[f] ELSE lint[f]]
       ELSE UNCHANGED <<fix_attempts, agent_runs, claude_results, lint,
                        merge_failed>>
    /\ mpc' = "progress"
    /\ UNCHANGED <<mcfg, iteration, issues_before, fix_results, exit_code,
                   left_by, reported, fixerRest, callVars>>

\* the progress test and the "all issues resolved" test
MainProgress ==
    /\ mpc = "progress"
    /\ LET issues_after == IssueCount(lint)
           fixes_made == \E f \in DOMAIN fix_results : fix_results[f]
           claude_fixes_made ==
               \E f \in DOMAIN claude_results : claude_results[f]
       IN IF NoProgress(fixes_made, claude_fixes_made, issues_after,
                        issues_before)
          THEN mpc' = "format" /\ left_by' = "no_progress"
          ELSE IF AllPass(lint)
          THEN mpc' = "format" /\ left_by' = "resolved"
          ELSE mpc' = "loop" /\ left_by' = left_by
    /\ UNCHANGED <<mcfg, iteration, lint, issues_before, fix_results,
                   claude_results, agent_runs, exit_code, reported,
                   merge_failed, fixerVars, callVars>>

\* format_output and the return of main
MainReturn ==
    /\ mpc = "format"
    /\ exit_code' = IF FormatOutput(lint) THEN 0 ELSE 2
    /\ reported' = ListedIssues(lint)
    /\ mpc' = "done"
    /\ UNCHANGED <<mcfg, iteration, lint, issues_before, fix_results,
                   claude_results, agent_runs, left_by, merge_failed,
                   fixerVars, callVars>>

MainNext ==
    \/ MainLint
    \/ MainAutoFix
    \/ MainClaudeFix
    \/ MainProgress
    \/ MainReturn

InitMain == MainFixerInit /\ MainInit /\ CallsIdle

SpecMain == InitMain /\ [][MainNext]_vars

\* main is one thread: it takes its next step as long as it has one
SpecMainLive == SpecMain /\ WF_vars(MainNext)

\* "if not file_paths": main returns 0 before its loop
MainNoFiles ==
    /\ mpc = "loop"
    /\ iteration = 0
    /\ mpc' = "done"
    /\ exit_code' = 0
    /\ left_by' = "no_files"
    /\ UNCHANGED <<mcfg, iteration, lint, issues_before, fix_results,
                   claude_results, agent_runs, reported, merge_failed,
                   fixerVars, callVars>>

\* an exception raised at any point of main: "except BrokenPipeError" and
\* "except Exception" return 0
MainRaise ==
    /\ mpc \in {"loop", "autofix", "claude", "progress", "format"}
    /\ mpc' = "done"
    /\ exit_code' = 0
    /\ left_by' = "exception"
    /\ UNCHANGED <<mcfg, iteration, lint, issues_before, fix_results,
                   claude_results, agent_runs, reported, merge_failed,
                   fixerVars, callVars>>

MainRaiseNext ==
    \/ MainNext
    \/ MainNoFiles
    \/ MainRaise

\* main with its early return and with exceptions
SpecMainRaise == InitMain /\ [][MainRaiseNext]_vars

----------------------------------------------------------------------------
(* Properties of main *)

Blocked == \E f \in DOMAIN lint : lint[f].nblock > 0

\* C9 (as stated): when the loop was left because the iterations were used up
\* and issues are outstanding, main returns the failure code.
C9_ExhaustedFails ==
    (mpc = "done" /\ left_by = "exhausted" /\ IssueCount(lint) > 0)
        => exit_code = 2

\* C9 (amended): main reaches its return, never having run more than
\* max_fix_iterations iterations, and returns the failure code exactly when
\* a blocking issue is outstanding.
C9_TerminatesWithinBudget ==
    /\ <>(mpc = "done")
    /\ [](iteration <= mcfg.max_fix_iterations)
    /\ [](mpc = "done" => (exit_code = 2 <=> Blocked))

C9_Witness ==
    /\ mpc = "done"
    /\ left_by = "exhausted"
    /\ iteration >= 2
    /\ Blocked
    /\ exit_code = 2

\* C10: within one run of main, _fix_single_file passes its attempt guard
\* for a file at most max_fix_attempts times.
C10_AttemptBudget ==
    \A f \in Files : agent_runs[f] <= cfg.max_fix_attempts

FixesMade == \E f \in DOMAIN fix_results : fix_results[f]
ClaudeFixesMade == \E f \in DOMAIN claude_results : claude_results[f]

\* C18 (as stated): when main returns with issues outstanding it returns the
\* failure code and its output lists every outstanding issue; it returns the
\* success code only when no issue is outstanding.
C18_ResidualIssuesReported ==
    mpc = "done" =>
        /\ IssueCount(lint) > 0 =>
              exit_code = 2 /\ reported = IssueCount(lint)
        /\ exit_code = 0 => IssueCount(lint) = 0

\* C18 (amended): main returns the failure code exactly when a blocking
\* issue is outstanding, and then its output lists every blocking issue and
\* no other; with none outstanding it returns the success code and lists no
\* issue, whatever the number of non-blocking issues left.
C18_BlockingIssuesReported ==
    mpc = "done" =>
        /\ exit_code = 2 <=> BlockingCount(lint) > 0
        /\ exit_code = 0 <=> BlockingCount(lint) = 0
        /\ reported = BlockingCount(lint)

C18_Witness ==
    /\ mpc = "done"
    /\ left_by = "no_progress"
    /\ exit_code = 2
    /\ BlockingCount(lint) >= 1
    /\ IssueCount(lint) > BlockingCount(lint)

\* C19: the progress test of an iteration in which no fix succeeded and the
\* issue count did not decrease leaves the loop, and from then on no
\* iteration is started, nothing is linted and no fix is attempted.
C19_NoProgressEndsLoop ==
    [][/\ (/\ mpc = "progress"
           /\ ~FixesMade
           /\ ~ClaudeFixesMade
           /\ IssueCount(lint) >= issues_before)
              => mpc' = "format" /\ left_by' = "no_progress"
       /\ left_by = "no_progress" =>
              /\ mpc' \in {"format", "done"}
              /\ UNCHANGED <<iteration, lint, fix_results, claude_results,
                             agent_runs, fix_attempts>>]_vars

C19_Witness ==
    /\ mpc = "done"
    /\ left_by = "no_progress"
    /\ iteration >= 2
    /\ iteration < mcfg.max_fix_iterations
    /\ IssueCount(lint) = issues_before

\* C20: the progress test of an iteration in which a fix succeeded and
\* issues remain goes back to the loop test, whatever the issue counts, and
\* the loop test starts the next iteration while the budget allows one.
C20_FixKeepsLoopGoing ==
    [][/\ (/\ mpc = "progress"
           /\ FixesMade \/ ClaudeFixesMade
           /\ ~AllPass(lint))
              => mpc' = "loop" /\ left_by' = left_by
       /\ (/\ mpc = "loop"
           /\ iteration >= 1
           /\ iteration < mcfg.max_fix_iterations)
              => /\ iteration' = iteration + 1
                 /\ mpc' \in {"autofix", "format"}
                 /\ left_by' \in {"", "all_pass"}]_vars

\* a fix was made, the count went up, and the loop test is reached again
C20_Witness ==
    /\ mpc = "loop"
    /\ iteration >= 1
    /\ iteration < mcfg.max_fix_iterations
    /\ FixesMade \/ ClaudeFixesMade
    /\ IssueCount(lint) > issues_before

\* C30: a file whose session failed to merge has a result without success,
\* is not linted again and does not count as fixed by the agent; when no
\* fix of the iteration succeeded the loop is then left for no progress.
C30_MergeFailureIsNoProgress ==
    /\ [](\A f \in merge_failed :
             f \in DOMAIN claude_results /\ ~claude_results[f])
    /\ [][/\ mpc = "claude" =>
                \A f \in merge_failed' : lint'[f] = lint[f]
          /\ (/\ mpc = "progress"
              /\ merge_failed # {}
              /\ ~FixesMade
              /\ ~ClaudeFixesMade)
                 => /\ IssueCount(lint) = issues_before
                    /\ mpc' = "format"
                    /\ left_by' = "no_progress"]_vars

C30_Witness ==
    /\ mpc = "done"
    /\ merge_failed # {}
    /\ left_by = "no_progress"
    /\ iteration < mcfg.max_fix_iterations
    /\ exit_code = 2

\* the lint of the iteration that starts found no issue in any file
CleanLint ==
    /\ mpc = "loop"
    /\ iteration' = iteration + 1
    /\ DOMAIN lint' # {}
    /\ \A f \in DOMAIN lint' : lint'[f].n = 0

\* C31: when the lint at the start of an iteration finds no issue in any
\* file, the loop is left in that iteration and main returns the success
\* code, and from the lint on no auto-fix is run, no session of the fixer is
\* started (no prediction, no agent run) and no worktree is made.
C31_CleanLintEndsRun ==
    [][/\ CleanLint =>
             /\ mpc' = "format"
             /\ left_by' = "all_pass"
             /\ UNCHANGED <<fix_results, claude_results, agent_runs,
                            fixerVars>>
       /\ left_by = "all_pass" =>
             /\ mpc' \in {"format", "done"}
             /\ mpc' = "done" => exit_code' = 0
             /\ UNCHANGED <<iteration, lint, fix_results, claude_results,
                            agent_runs, fixerVars>>]_vars

\* C37: main returns 0 or 2; it returns 2 exactly when it came to its end
\* without an exception and a blocking issue is among the last lint
\* results, and 0 otherwise: with warnings only, with no issue, with no file
\* to lint, and after an exception raised at any point.
C37_ExitCode ==
    mpc = "done" =>
        /\ exit_code \in {0, 2}
        /\ exit_code = 2 <=> (left_by # "exception" /\ Blocked)

\* an exception after the first iteration, a blocking issue outstanding
C37_Witness ==
    /\ mpc = "done"
    /\ left_by = "exception"
    /\ iteration >= 2
    /\ Blocked
    /\ exit_code = 0

\* the first lint is clean: main has returned 0 and nothing was attempted
C31_Witness ==
    /\ mpc = "done"
    /\ left_by = "all_pass"
    /\ iteration = 1
    /\ exit_code = 0
    /\ fix_results = <<>>
    /\ \A f \in Files : agent_runs[f] = 0 /\ fix_attempts[f] = 0
    /\ active_worktrees = {} /\ existing = {}

----------------------------------------------------------------------------
(* cluster_issues as a function of the issue list and the configuration *)

\* rules of two categories of _get_issue_category
Rules == {"F401", "F841"}

\* _get_issue_category with no custom categories: F401 is import-related,
\* F841 an unused variable
IssueCategory(rule) == IF rule = "F401" THEN "imports" ELSE "unused"

\* lines at the cluster distance from each other: neighbours are close
\* enough, the first and the third are not
ClusterLines == {1 + DefaultClusterDistance * i : i \in 0..2}

\* An issue: id stands for the fields that tell two reports apart (message,
\* column); it is the position in the first list.
ClusterIssueLists ==
    UNION {{s \in [1..n -> [id : 1..n, line : ClusterLines, rule : Rules]] :
               \A i \in 1..n : s[i].id = i} : n \in 0..MaxClusterIssues}

\* the same issues with the two at positions i and i + 1 exchanged
SwapAt(s, i) ==
    [k \in 1..Len(s) |-> IF k = i THEN s[i + 1]
                         ELSE IF k = i + 1 THEN s[i] ELSE s[k]]

\* the arguments of two calls: the same issues, listed in the same order or
\* with two neighbours exchanged
ClusterCallInputs ==
    {<<s, s>> : s \in ClusterIssueLists}
        \cup UNION {{<<s, SwapAt(s, i)>> : i \in 1..(Len(s) - 1)} :
                       s \in ClusterIssueLists}

\* batch_similar_issues, clustering_strategy, cluster_distance and
\* max_issues_per_cluster; the strategy is not read when batching is off
ClusterConfigs ==
    {c \in [batch_similar : BOOLEAN,
            clustering_strategy : {"proximity", "similarity", "hybrid"},
            cluster_distance : {DefaultClusterDistance},
            max_issues_per_cluster : {0, 2, MaxClusterIssues}] :
        ~c.batch_similar => c.clustering_strategy = "proximity"}

\* an issue fingerprint that tells two reports of a rule at a line apart
IssueFingerprintWithId(i) == <<i.rule, i.line, i.id>>

\* _get_issue_fingerprint: f"{rule}:{line}"
IssueFingerprint(i) == <<i.rule, i.line>>

\* _get_cluster_fingerprint: the first 8 hex digits of the md5 of the issue
\* fingerprints joined in the order of the members
ClusterFingerprint(s) ==
    <<"md5", [k \in 1..Len(s) |-> IssueFingerprint(s[k])]>>

\* the fingerprint of a cluster made with batching off: the text of
\* _get_issue_fingerprint itself
RawFingerprint(i) == <<"text", <<IssueFingerprint(i)>>>>

\* _create_cluster
IssueCluster(s) ==
    [issues |-> s, start_line |-> MinLine(s), end_line |-> MaxLine(s),
     fingerprint |-> ClusterFingerprint(s)]

\* the IssueCluster cluster_issues builds per issue when batching is off
SingletonCluster(i) ==
    [issues |-> <<i>>, start_line |-> i.line, end_line |-> i.line,
     fingerprint |-> RawFingerprint(i)]

\* a distance test that always passes
AnyDistance(line, last, dist) == TRUE

\* a distance test that rejects an issue at exactly the distance
CloserThan(line, last, dist) == line - last < dist

\* line - current_cluster[-1].get('line', 0) <= self.cluster_distance
CloseEnough(line, last, dist) == line - last <= dist

\* a size test that admits one issue too many
HasRoomInclusive(cur, cap) == Len(cur) <= cap

\* len(current_cluster) < self.max_issues_per_cluster
HasRoom(cur, cap) == Len(cur) < cap

\* a restart that forgets the issue at hand
StartEmpty(issue) == <<>>

\* current_cluster = [issue]
StartNew(issue) == <<issue>>

\* an order that leaves the issues as they were listed
Unsorted(s) == s

\* sorted(..., key=lambda x: x.get('line', 0))
SortedByLine(s) == SortByLine(s)

\* The loop the three strategies share over sorted issues; near tells
\* whether the distance test is part of the condition (proximity, hybrid)
RECURSIVE GroupLoop(_, _, _, _, _)
GroupLoop(rest, cur, done, c, near) ==
    IF rest = <<>>
    THEN IF cur = <<>> THEN done ELSE Append(done, IssueCluster(cur))
    ELSE LET issue == Head(rest) IN
         IF cur = <<>>
         THEN GroupLoop(Tail(rest), <<issue>>, done, c, near)
         ELSE IF /\ near => CloseEnough(issue.line, cur[Len(cur)].line,
                                        c.cluster_distance)
                 /\ HasRoom(cur, c.max_issues_per_cluster)
         THEN GroupLoop(Tail(rest), Append(cur, issue), done, c, near)
         ELSE GroupLoop(Tail(rest), StartNew(issue),
                        Append(done, IssueCluster(cur)), c, near)

\* the keys of issue_groups in insertion order
RECURSIVE CategoryOrder(_, _)
CategoryOrder(iss, seen) ==
    IF iss = <<>> THEN seen
    ELSE LET cat == IssueCategory(Head(iss).rule) IN
         CategoryOrder(Tail(iss),
                       IF cat \in SeqToSet(seen) THEN seen
                       ELSE Append(seen, cat))

\* the loop over issue_groups.items() of _cluster_by_similarity and
\* _cluster_hybrid
RECURSIVE ByCategory(_, _, _, _)
ByCategory(cats, iss, c, near) ==
    IF cats = <<>> THEN <<>>
    ELSE LET mine == SelectSeq(iss,
                         LAMBDA x : IssueCategory(x.rule) = Head(cats))
         IN GroupLoop(SortedByLine(mine), <<>>, <<>>, c, near)
                \o ByCategory(Tail(cats), iss, c, near)

ClusterBySimilarity(c, iss) ==
    ByCategory(CategoryOrder(iss, <<>>), iss, c, FALSE)

ClusterHybrid(c, iss) ==
    ByCategory(CategoryOrder(iss, <<>>), iss, c, TRUE)

ClusterByProximityWith(c, iss) ==
    GroupLoop(SortedByLine(iss), <<>>, <<>>, c, TRUE)

\* cluster_issues under configuration c
ClusterIssuesWith(c, iss) ==
    IF ~c.batch_similar
    THEN [k \in 1..Len(iss) |-> SingletonCluster(iss[k])]
    ELSE IF c.clustering_strategy = "similarity"
    THEN ClusterBySimilarity(c, iss)
    ELSE IF c.clustering_strategy = "hybrid"
    THEN ClusterHybrid(c, iss)
    ELSE ClusterByProximityWith(c, iss)

\* the fixer is idle while cluster_issues is studied
FixerIdle ==
    /\ cfg \in {c \in FixerConfigs :
                   /\ ~c.use_git_worktrees
                   /\ c.max_workers = DefaultMaxWorkers
                   /\ c.max_fix_attempts = 1}
    /\ batch = <<>>
    /\ FixerStart

InitCluster ==
    /\ issue_lists \in ClusterCallInputs
    /\ cluster_cfg \in ClusterConfigs
    /\ returned_clusters = <<>>
    /\ PredictIdle
    /\ PassIdle
    /\ CascadeIdle
    /\ AutoFixIdle
    /\ FixerIdle
    /\ MainIdle

\* one call of cluster_issues on the next issue list
ClusterCall ==
    /\ Len(returned_clusters) < Len(issue_lists)
    /\ returned_clusters' =
           Append(returned_clusters,
                  ClusterIssuesWith(cluster_cfg,
                                    issue_lists[Len(returned_clusters) + 1]))
    /\ UNCHANGED <<issue_lists, cluster_cfg, predictVars, passVars, procs,
                   autoFixVars, fixerVars, mainVars>>

SpecCluster == InitCluster /\ [][ClusterCall]_vars

----------------------------------------------------------------------------
(* Properties of cluster_issues *)

Calls == 1..Len(returned_clusters)

\* the clusters returned by the calls made so far
AllClusters == UNION {SeqToSet(returned_clusters[n]) : n \in Calls}

\* the members of the clusters of one result, cluster after cluster
RECURSIVE Members(_)
Members(cls) ==
    IF cls = <<>> THEN <<>> ELSE Head(cls).issues \o Members(Tail(cls))

MemberIds(c) == {c.issues[k].id : k \in 1..Len(c.issues)}

\* the (rule, line) pairs of the members, in the order of the members
PairSeq(c) ==
    [k \in 1..Len(c.issues) |-> <<c.issues[k].rule, c.issues[k].line>>]

\* a cluster as its set of issues and its fingerprint
ClusterView(c) == [members |-> MemberIds(c), fingerprint |-> c.fingerprint]

DistinctLines(s) ==
    \A i \in 1..Len(s) : \A j \in 1..Len(s) : i # j => s[i].line # s[j].line

Grouping ==
    /\ cluster_cfg.batch_similar
    /\ cluster_cfg.clustering_strategy \in {"proximity", "hybrid"}

\* C11: under every strategy and with batching off, the clusters returned
\* hold every issue of the input exactly once and none of them is empty.
C11_Partition ==
    \A n \in Calls :
        LET out == returned_clusters[n]
            inp == issue_lists[n]
            mem == Members(out)
        IN /\ \A k \in 1..Len(out) : out[k].issues # <<>>
           /\ Len(mem) = Len(inp)
           /\ \A i \in 1..Len(inp) :
                 Cardinality({k \in 1..Len(mem) : mem[k] = inp[i]}) = 1

C11_Witness ==
    /\ Len(returned_clusters) = 2
    /\ cluster_cfg.clustering_strategy = "hybrid"
    /\ Len(issue_lists[1]) >= 3
    /\ Len(returned_clusters[1]) >= 2
    /\ \E k \in 1..Len(returned_clusters[1]) :
          Len(returned_clusters[1][k].issues) >= 2

\* C12 (as stated): no cluster holds more than max_issues_per_cluster
\* issues.
C12_SizeBound ==
    \A c \in AllClusters :
        Len(c.issues) <= cluster_cfg.max_issues_per_cluster

\* C12 (amended): when max_issues_per_cluster is at least 1, no cluster
\* holds more than max_issues_per_cluster issues.
C12_SizeBoundPositiveCap ==
    cluster_cfg.max_issues_per_cluster >= 1 =>
        \A c \in AllClusters :
            Len(c.issues) <= cluster_cfg.max_issues_per_cluster

\* a cluster that is full is followed by one that starts close enough
C12_Witness ==
    /\ Calls # {}
    /\ cluster_cfg.batch_similar
    /\ cluster_cfg.clustering_strategy = "proximity"
    /\ \E k \in 1..(Len(returned_clusters[1]) - 1) :
          LET c == returned_clusters[1][k]
              d == returned_clusters[1][k + 1]
          IN /\ Len(c.issues) = cluster_cfg.max_issues_per_cluster
             /\ d.start_line - c.end_line <= cluster_cfg.cluster_distance

\* C13 (as stated): under proximity and hybrid, the lines of a cluster span
\* at most cluster_distance.
C13_SpanBound ==
    Grouping =>
        \A c \in AllClusters :
            c.end_line - c.start_line <= cluster_cfg.cluster_distance

\* C13 (amended): under proximity and hybrid, the members of a cluster are
\* in line order and each is at most cluster_distance lines after the one
\* before it, so the span is at most (size - 1) * cluster_distance.
C13_NeighbourDistance ==
    Grouping =>
        \A c \in AllClusters :
            /\ \A k \in 1..(Len(c.issues) - 1) :
                  /\ c.issues[k].line <= c.issues[k + 1].line
                  /\ c.issues[k + 1].line - c.issues[k].line
                        <= cluster_cfg.cluster_distance
            /\ c.end_line - c.start_line
                  <= (Len(c.issues) - 1) * cluster_cfg.cluster_distance

C13_Witness ==
    /\ Grouping
    /\ \E c \in AllClusters :
          c.end_line - c.start_line > cluster_cfg.cluster_distance

\* C14 (as stated): two calls on the same issues under the same configuration
\* return the same clusters with the same fingerprints, in whatever order the
\* issues are listed.
C14_OrderIndependent ==
    Len(returned_clusters) = 2 =>
        {ClusterView(c) : c \in SeqToSet(returned_clusters[1])}
            = {ClusterView(c) : c \in SeqToSet(returned_clusters[2])}

\* C14 (amended): two calls on the same list return the same sequence of
\* clusters; on lists of the same issues in different orders they return the
\* same clusters with the same fingerprints when no two issues share a line.
C14_SameListOrDistinctLines ==
    Len(returned_clusters) = 2 =>
        /\ issue_lists[1] = issue_lists[2]
              => returned_clusters[1] = returned_clusters[2]
        /\ DistinctLines(issue_lists[1]) =>
              {ClusterView(c) : c \in SeqToSet(returned_clusters[1])}
                  = {ClusterView(c) : c \in SeqToSet(returned_clusters[2])}

C14_Witness ==
    /\ Len(returned_clusters) = 2
    /\ issue_lists[1] # issue_lists[2]
    /\ DistinctLines(issue_lists[1])
    /\ cluster_cfg.batch_similar
    /\ \E c \in AllClusters : Len(c.issues) >= 2

\* C15 (as stated): clusters of the same issues have the same fingerprint,
\* in whatever order the issues were supplied and whether or not batching is
\* on (a cluster of one issue has the fingerprint either path gives it).
C15_FingerprintOfIssueSet ==
    /\ \A c \in AllClusters : \A d \in AllClusters :
          MemberIds(c) = MemberIds(d) => c.fingerprint = d.fingerprint
    /\ \A c \in AllClusters :
          Len(c.issues) = 1 =>
              /\ c.fingerprint = IssueCluster(c.issues).fingerprint
              /\ c.fingerprint = SingletonCluster(c.issues[1]).fingerprint

\* C15 (amended): under one configuration, clusters whose members have the
\* same (rule, line) pairs in the same order have the same fingerprint,
\* whatever else tells their issues apart.
C15_FingerprintOfOrderedPairs ==
    \A c \in AllClusters : \A d \in AllClusters :
        PairSeq(c) = PairSeq(d) => c.fingerprint = d.fingerprint

C15_Witness ==
    \E c \in AllClusters : \E d \in AllClusters :
        /\ MemberIds(c) # MemberIds(d)
        /\ PairSeq(c) = PairSeq(d)
        /\ Len(c.issues) >= 2

\* the position in Members(cls) of the first member of cluster j
RECURSIVE FirstPos(_, _)
FirstPos(cls, j) ==
    IF j = 1 THEN 1 ELSE FirstPos(cls, j - 1) + Len(cls[j - 1].issues)

\* the cluster that holds the member at position p of Members(cls)
ClusterOf(cls, p) ==
    CHOOSE j \in 1..Len(cls) :
        FirstPos(cls, j) <= p /\ p < FirstPos(cls, j) + Len(cls[j].issues)

Proximity ==
    /\ cluster_cfg.batch_similar
    /\ cluster_cfg.clustering_strategy = "proximity"

\* C32: under proximity clustering the clusters are runs of the issues in
\* line order, and an issue is in the cluster of the issue before it exactly
\* when it is at most cluster_distance lines after it and that cluster held
\* fewer than max_issues_per_cluster issues; otherwise it starts the next
\* cluster.
C32_GreedyProximity ==
    Proximity =>
        \A n \in Calls :
            LET out == returned_clusters[n]
                mem == Members(out)
            IN /\ Len(mem) = Len(issue_lists[n])
               /\ \A p \in 1..(Len(mem) - 1) :
                     LET j == ClusterOf(out, p)
                         held == p - FirstPos(out, j) + 1
                     IN /\ mem[p].line <= mem[p + 1].line
                        /\ ClusterOf(out, p + 1) \in {j, j + 1}
                        /\ ClusterOf(out, p + 1) = j
                              <=> /\ mem[p + 1].line - mem[p].line
                                        <= cluster_cfg.cluster_distance
                                  /\ held < cluster_cfg.max_issues_per_cluster

\* two issues share a cluster that still has room, and the issue after them,
\* farther away than the distance, starts the next cluster
C32_Witness ==
    /\ Proximity
    /\ \E n \in Calls :
          LET out == returned_clusters[n] IN
          \E k \in 1..(Len(out) - 1) :
                /\ Len(out[k].issues) >= 2
                /\ out[k + 1].start_line - out[k].end_line
                      > cluster_cfg.cluster_distance
                /\ Len(out[k].issues) < cluster_cfg.max_issues_per_cluster

\* C39 (as stated): the clusters returned by one call of cluster_issues have
\* pairwise distinct fingerprints, so that no two of them get the same
\* octopus branch name linter-fix-<fingerprint>.
C39_DistinctFingerprints ==
    \A n \in Calls :
        LET out == returned_clusters[n] IN
        \A j \in 1..Len(out) : \A k \in 1..Len(out) :
            j # k => out[j].fingerprint # out[k].fingerprint

----------------------------------------------------------------------------
(* predict_simple_fix as a function of the issue and the file content *)

\* A line of text is a sequence of pieces of text, a file content the
\* sequence of its lines (file_content.split('\n')).
MaxContentLines == 3

Quotes == "\"\"\""

ImportOs == <<"import", " ", "os">>

\* self.simple_fix_patterns['F821'], for the names the issues below carry
ImportFor(name) == IF name = "os" THEN ImportOs ELSE <<>>

PatternNames == {"os"}

PredictLines ==
    { ImportOs,
      <<"import", " ", "sys">>,
      <<"#", " ", "import", " ", "os">>,
      <<>>,
      <<" ", "x", " ", "=", " ", "1">>,
      <<"x", "=", "1">>,
      <<" ", "=", " ", "x">>,
      <<Quotes, "d", Quotes>>,
      <<Quotes, "d">>,
      <<"d", Quotes>> }

RECURSIVE ContentsOfLen(_)
ContentsOfLen(n) ==
    IF n = 0 THEN {<<>>}
    ELSE {Append(c, l) : c \in ContentsOfLen(n - 1), l \in PredictLines}

PredictContents == UNION {ContentsOfLen(n) : n \in 1..MaxContentLines}

\* the rule, the name quoted in the message ("" when the message quotes
\* none) and the line of an issue
PredictIssues ==
    {i \in [rule : {"F821", "F841", "E501"},
            name : {"os", "re", ""},
            line : 0..(MaxContentLines + 1)] :
        /\ i.rule = "F821" => i.line = 1
        /\ i.rule # "F821" => i.name = ""
        /\ i.rule = "E501" => i.line = 1}

\* p in s, for texts p and s
Contains(s, p) ==
    \E k \in 1..(Len(s) - Len(p) + 1) : SubSeq(s, k, k + Len(p) - 1) = p

StartsWith(s, p) == Len(p) <= Len(s) /\ SubSeq(s, 1, Len(p)) = p

EndsWith(s, p) ==
    Len(p) <= Len(s) /\ SubSeq(s, Len(s) - Len(p) + 1, Len(s)) = p

RECURSIVE LStrip(_)
LStrip(s) == IF s # <<>> /\ Head(s) = " " THEN LStrip(Tail(s)) ELSE s

RECURSIVE RStrip(_)
RStrip(s) ==
    IF s # <<>> /\ s[Len(s)] = " " THEN RStrip(SubSeq(s, 1, Len(s) - 1))
    ELSE s

\* str.strip()
Strip(s) == RStrip(LStrip(s))

\* s.split(sep)[0]
RECURSIVE BeforeFirst(_, _)
BeforeFirst(s, sep) ==
    IF s = <<>> \/ Head(s) = sep THEN <<>>
    ELSE <<Head(s)>> \o BeforeFirst(Tail(s), sep)

\* s.replace(old, new, 1)
ReplaceFirst(s, old, new) ==
    IF ~Contains(s, old) THEN s
    ELSE LET k == CHOOSE j \in 1..(Len(s) - Len(old) + 1) :
                      /\ SubSeq(s, j, j + Len(old) - 1) = old
                      /\ \A h \in 1..(j - 1) :
                            SubSeq(s, h, h + Len(old) - 1) # old
         IN SubSeq(s, 1, k - 1) \o new \o SubSeq(s, k + Len(old), Len(s))

IsImportLine(st) ==
    StartsWith(st, <<"import", " ">>) \/ StartsWith(st, <<"from", " ">>)

\* the while loop of _apply_import_fix: p lines precede the insertion
RECURSIVE SkipImports(_, _)
SkipImports(ls, p) ==
    IF p < Len(ls) /\ (IsImportLine(Strip(ls[p + 1])) \/ Strip(ls[p + 1]) = <<>>)
    THEN SkipImports(ls, p + 1)
    ELSE p

\* the for loop of _apply_import_fix from line i on: the number of lines
\* that precede the insertion (insert_pos)
RECURSIVE InsertPos(_, _, _, _)
InsertPos(ls, i, in_docstring, pos) ==
    IF i > Len(ls) THEN pos
    ELSE LET stripped == Strip(ls[i])
         IN IF ~in_docstring /\ StartsWith(stripped, <<Quotes>>)
            THEN InsertPos(ls, i + 1,
                           ~(EndsWith(stripped, <<Quotes>>) /\ Len(stripped) > 1),
                           pos)
            ELSE IF in_docstring /\ EndsWith(stripped, <<Quotes>>)
            THEN InsertPos(ls, i + 1, FALSE, i)
            ELSE IF ~in_docstring /\ stripped # <<>>
                    /\ ~StartsWith(stripped, <<"#">>)
            THEN IF IsImportLine(stripped) THEN SkipImports(ls, i)
                 ELSE i - 1
            ELSE InsertPos(ls, i + 1, in_docstring, pos)

\* an insertion at the end of the file
ImportAppended(content, import_stmt) == Append(content, import_stmt)

\* _apply_import_fix
ApplyImportFix(content, import_stmt) ==
    LET p == InsertPos(content, 1, FALSE, 0)
    IN SubSeq(content, 1, p) \o <<import_stmt>>
           \o SubSeq(content, p + 1, Len(content))

\* a test that looks for the statement on the first line only
ImportAtTop(content, import_stmt) ==
    content # <<>> /\ content[1] = import_stmt

\* "import_stmt not in file_content", negated
ImportPresent(content, import_stmt) ==
    \E k \in 1..Len(content) : Contains(content[k], import_stmt)

\* var_name.startswith('_')
Marked(var_name) == StartsWith(var_name, <<"_">>)

NoPrediction == [some |-> FALSE, content |-> <<>>]

Prediction(c) == [some |-> TRUE, content |-> c]

\* predict_simple_fix
PredictSimpleFix(enabled, issue, content) ==
    IF ~enabled THEN NoPrediction
    ELSE IF issue.rule = "F821"
    THEN IF /\ issue.name # ""
            /\ issue.name \in PatternNames
            /\ ~ImportPresent(content, ImportFor(issue.name))
         THEN Prediction(ApplyImportFix(content, ImportFor(issue.name)))
         ELSE NoPrediction
    ELSE IF issue.rule = "F841"
    THEN IF 1 <= issue.line /\ issue.line <= Len(content)
         THEN LET line == content[issue.line]
                  var_name == Strip(BeforeFirst(line, "="))
              IN IF Contains(line, <<" ", "=", " ">>) /\ ~Marked(var_name)
                 THEN Prediction([content EXCEPT ![issue.line] =
                          ReplaceFirst(line, var_name, <<"_">> \o var_name)])
                 ELSE NoPrediction
         ELSE NoPrediction
    ELSE NoPrediction

InitPredict ==
    /\ predict_cfg \in BOOLEAN
    /\ predict_issue \in PredictIssues
    /\ predict_content \in PredictContents
    /\ predictions = <<>>
    /\ ClusterIdle
    /\ PassIdle
    /\ CascadeIdle
    /\ AutoFixIdle
    /\ FixerIdle
    /\ MainIdle

\* A call of predict_simple_fix: the first on predict_content, each later
\* one on the content the call before it returned
PredictCall ==
    /\ Len(predictions) < 2
    /\ IF predictions = <<>> THEN TRUE ELSE predictions[Len(predictions)].some
    /\ predictions' =
           Append(predictions,
                  PredictSimpleFix(predict_cfg, predict_issue,
                                   IF predictions = <<>> THEN predict_content
                                   ELSE predictions[Len(predictions)].content))
    /\ UNCHANGED <<predict_cfg, predict_issue, predict_content, clusterVars,
                   passVars, procs, autoFixVars, fixerVars, mainVars>>

SpecPredict == InitPredict /\ [][PredictCall]_vars

----------------------------------------------------------------------------
(* Properties of predict_simple_fix *)

\* C21: when predict_simple_fix has returned a content, the call with the
\* same issue on that content returns no prediction.
C21_PredictionIdempotent ==
    (Len(predictions) = 2 /\ predictions[1].some) => ~predictions[2].some

\* a name on an indented line was prefixed and the second call declined
C21_Witness ==
    /\ Len(predictions) = 2
    /\ predict_issue.rule = "F841"
    /\ predictions[1].some
    /\ predictions[1].content[predict_issue.line]
           = <<" ", "_", "x", " ", "=", " ", "1">>
    /\ ~predictions[2].some

Blank(l) == Strip(l) = <<>>
Comment(l) == StartsWith(Strip(l), <<"#">>)

\* The lines of the leading docstrings of a content, from line i on: open
\* tells whether line i lies inside a docstring begun before it.  A
\* docstring begins on a line that starts with the quotes, and ends on that
\* line when the quotes also close it, else on the next line that ends with
\* them; only blank lines and comments may precede or separate docstrings.
RECURSIVE DocLines(_, _, _)
DocLines(c, i, open) ==
    IF i > Len(c) THEN {}
    ELSE LET st == Strip(c[i]) IN
         IF open
         THEN {i} \cup DocLines(c, i + 1, ~EndsWith(st, <<Quotes>>))
         ELSE IF StartsWith(st, <<Quotes>>)
         THEN {i} \cup DocLines(c, i + 1,
                                ~(EndsWith(st, <<Quotes>>) /\ Len(st) > 1))
         ELSE IF Blank(c[i]) \/ Comment(c[i])
         THEN DocLines(c, i + 1, FALSE)
         ELSE {}

\* the lines that are neither blank, a comment nor part of a leading
\* docstring
CodeLines(c) ==
    {k \in 1..Len(c) :
        ~Blank(c[k]) /\ ~Comment(c[k]) /\ k \notin DocLines(c, 1, FALSE)}

\* the first of them
FirstCode(c) == CHOOSE k \in CodeLines(c) : \A j \in CodeLines(c) : k <= j

\* the last line of the run of import lines that begins at line f
RECURSIVE LastImport(_, _)
LastImport(c, f) ==
    IF f < Len(c) /\ IsImportLine(Strip(c[f + 1])) THEN LastImport(c, f + 1)
    ELSE f

\* the last line of the run of import and blank lines that begins at line f
RECURSIVE LastImportOrBlank(_, _)
LastImportOrBlank(c, f) ==
    IF f < Len(c) /\ (IsImportLine(Strip(c[f + 1])) \/ Blank(c[f + 1]))
    THEN LastImportOrBlank(c, f + 1)
    ELSE f

\* d is c with the line stmt put in after the first p lines
InsertedAfter(c, d, stmt, p) ==
    d = SubSeq(c, 1, p) \o <<stmt>> \o SubSeq(c, p + 1, Len(c))

\* _apply_import_fix was called: the prediction of an undefined name
ImportFixed ==
    /\ predictions # <<>>
    /\ predict_issue.rule = "F821"
    /\ predictions[1].some

\* C34 (as stated): _apply_import_fix puts in one line, the import
\* statement, and keeps every other line and their order; the line comes
\* directly after the last line of the leading import block when the first
\* code line is an import, and directly before the first code line otherwise.
C34_AfterImportBlock ==
    ImportFixed =>
        LET c == predict_content
            d == predictions[1].content
            stmt == ImportFor(predict_issue.name)
        IN /\ \E p \in 0..Len(c) : InsertedAfter(c, d, stmt, p)
           /\ CodeLines(c) # {} =>
                 LET f == FirstCode(c) IN
                 InsertedAfter(c, d, stmt,
                               IF IsImportLine(Strip(c[f]))
                               THEN LastImport(c, f) ELSE f - 1)

\* C34 (amended): _apply_import_fix puts in one line, the import statement,
\* and keeps every other line and their order.  When the first code line is
\* an import, the line comes directly after the run of import and blank
\* lines that begins there; when it is another statement, directly before
\* it; when the content has no code line, at the top or directly after a
\* closing line of a leading docstring.
C34_AfterImportsAndBlanks ==
    ImportFixed =>
        LET c == predict_content
            d == predictions[1].content
            stmt == ImportFor(predict_issue.name)
        IN /\ \E p \in 0..Len(c) : InsertedAfter(c, d, stmt, p)
           /\ CodeLines(c) # {} =>
                 LET f == FirstCode(c) IN
                 InsertedAfter(c, d, stmt,
                               IF IsImportLine(Strip(c[f]))
                               THEN LastImportOrBlank(c, f) ELSE f - 1)
           /\ CodeLines(c) = {} =>
                 \E p \in {0} \cup {k \in DocLines(c, 1, FALSE) :
                                        EndsWith(Strip(c[k]), <<Quotes>>)} :
                     InsertedAfter(c, d, stmt, p)

\* an import, a blank line and a statement: the line is put after the blank
C34_Witness ==
    /\ ImportFixed
    /\ predict_content = << <<"import", " ", "sys">>, <<>>,
                            <<" ", "x", " ", "=", " ", "1">> >>
    /\ predictions[1].content[3] = ImportOs
    /\ Len(predictions[1].content) = 4

----------------------------------------------------------------------------
(* The first loop of _fix_single_file: predict_simple_fix over the issues *)

PassLines ==
    { <<"import", " ", "sys">>,
      <<" ", "x", " ", "=", " ", "1">>,
      <<" ", "=", " ", "x">>,
      <<"x", "=", "1">> }

RECURSIVE PassContentsOfLen(_)
PassContentsOfLen(n) ==
    IF n = 0 THEN {<<>>}
    ELSE {Append(c, l) : c \in PassContentsOfLen(n - 1), l \in PassLines}

\* the content of the file when it was linted and is read
PassContents == UNION {PassContentsOfLen(n) : n \in 1..MaxContentLines}

\* the issues of the linter for such a content: an undefined name with an
\* import pattern, an unused variable on one of the lines
PassIssues ==
    {i \in PredictIssues :
        \/ i.rule = "F821" /\ i.name = "os"
        \/ i.rule = "F841" /\ i.line \in 1..MaxContentLines}

\* the line numbers of a content as the linter saw them
LintedLines(content) == [k \in 1..Len(content) |-> k]

\* the line numbers after the insertion _apply_import_fix makes
OriginAfterImport(content, origin) ==
    LET p == InsertPos(content, 1, FALSE, 0)
    IN SubSeq(origin, 1, p) \o <<0>> \o SubSeq(origin, p + 1, Len(origin))

InitPass ==
    /\ pass_issues \in {<<i>> : i \in PassIssues} \cup (PassIssues \X PassIssues)
    /\ pass_content \in PassContents
    /\ pass_origin = LintedLines(pass_content)
    /\ \A k \in 1..Len(pass_issues) :
          pass_issues[k].rule = "F841" => pass_issues[k].line <= Len(pass_content)
    /\ predicted_fixes = <<>>
    /\ remaining_issues = <<>>
    /\ ClusterIdle
    /\ PredictIdle
    /\ CascadeIdle
    /\ AutoFixIdle
    /\ FixerIdle
    /\ MainIdle

\* one turn of "for issue in issues": predict_simple_fix on the content as
\* changed so far; a prediction is staged and applied, any other issue is
\* left for the agent
PassStep ==
    /\ Len(predicted_fixes) + Len(remaining_issues) < Len(pass_issues)
    /\ LET issue ==
               pass_issues[Len(predicted_fixes) + Len(remaining_issues) + 1]
           prediction == PredictSimpleFix(TRUE, issue, pass_content)
       IN IF prediction.some
          THEN /\ predicted_fixes' =
                     Append(predicted_fixes,
                            [issue |-> issue,
                             marked |-> IF issue.rule = "F841"
                                        THEN pass_origin[issue.line] ELSE 0])
               /\ pass_content' = prediction.content
               /\ pass_origin' =
                     IF issue.rule = "F821"
                     THEN OriginAfterImport(pass_content, pass_origin)
                     ELSE pass_origin
               /\ UNCHANGED remaining_issues
          ELSE /\ remaining_issues' = Append(remaining_issues, issue)
               /\ UNCHANGED <<predicted_fixes, pass_content, pass_origin>>
    /\ UNCHANGED <<pass_issues, clusterVars, predictVars, procs, autoFixVars,
                   fixerVars, mainVars>>

SpecPass == InitPass /\ [][PassStep]_vars

----------------------------------------------------------------------------
(* Properties of the prediction pass *)

\* C33 (as stated): each unused-variable prediction of the pass marks the
\* line that had the issue's line number in the content that was linted,
\* whatever was predicted before it in the pass.
C33_MarksReportedLine ==
    \A k \in 1..Len(predicted_fixes) :
        predicted_fixes[k].issue.rule = "F841"
            => predicted_fixes[k].marked = predicted_fixes[k].issue.line

----------------------------------------------------------------------------
(* Hook runs and the agent runs of the fixer as processes *)

\* the processes looked at
MaxProcs == 5

\* the agent runs of the fixer: fix_cluster_with_claude called on the real
\* file or from fix_cluster_with_worktree, and _merge_with_claude
AgentKinds == {"cluster", "worktree_cluster", "merge"}

\* An environment: fix_in_progress tells whether CLAUDE_CODE_FIX_IN_PROGRESS
\* is set in it
Environments == [fix_in_progress : BOOLEAN]

\* an environment handed on as it is
InheritedEnv(env) == env

\* env = os.environ.copy(); env['CLAUDE_CODE_FIX_IN_PROGRESS'] = '1'
FixEnv(env) == [env EXCEPT !.fix_in_progress = TRUE]

\* A run of the hook (main of quality-hook.py) started by process parent
\* (0: by the session of the user) in environment env
HookProc(parent, env) ==
    [kind |-> "hook", by |-> "", parent |-> parent, env |-> env,
     pc |-> "entry", exit |-> -1]

\* An agent run started by hook run parent
AgentProc(parent, by, env) ==
    [kind |-> "agent", by |-> by, parent |-> parent, env |-> env,
     pc |-> "running", exit |-> -1]

Children(p) == {q \in DOMAIN procs : procs[q].parent = p}

cascadeRest == <<clusterVars, predictVars, passVars, autoFixVars, fixerVars,
                 mainVars>>

InitCascade ==
    /\ procs \in {<<HookProc(0, env)>> : env \in Environments}
    /\ ClusterIdle
    /\ PredictIdle
    /\ PassIdle
    /\ AutoFixIdle
    /\ FixerIdle
    /\ MainIdle

\* the first statement of main: with the variable set it returns 0 at once,
\* else it goes on to lint and fix
HookEntry(p) ==
    /\ p \in DOMAIN procs
    /\ procs[p].kind = "hook"
    /\ procs[p].pc = "entry"
    /\ procs' = [procs EXCEPT ![p] =
                    IF @.env.fix_in_progress
                    THEN [@ EXCEPT !.pc = "done", !.exit = 0]
                    ELSE [@ EXCEPT !.pc = "fixing"]]
    /\ UNCHANGED cascadeRest

\* the fixer of hook run p starts an agent, subprocess.run(cmd, env=env),
\* while others it started may be running (the workers of the pool)
StartAgent(p) ==
    /\ p \in DOMAIN procs
    /\ procs[p].kind = "hook"
    /\ procs[p].pc = "fixing"
    /\ Len(procs) < MaxProcs
    /\ \E by \in AgentKinds :
          procs' = Append(procs, AgentProc(p, by, FixEnv(procs[p].env)))
    /\ UNCHANGED cascadeRest

\* agent a edits a file: the hook is started for the edit, in the
\* environment of the agent
AgentEdit(a) ==
    /\ a \in DOMAIN procs
    /\ procs[a].kind = "agent"
    /\ procs[a].pc = "running"
    /\ Len(procs) < MaxProcs
    /\ \A q \in Children(a) : procs[q].pc = "done"
    /\ procs' = Append(procs, HookProc(a, procs[a].env))
    /\ UNCHANGED cascadeRest

\* agent a exits, the hooks of its edits having returned
AgentExit(a) ==
    /\ a \in DOMAIN procs
    /\ procs[a].kind = "agent"
    /\ procs[a].pc = "running"
    /\ \A q \in Children(a) : procs[q].pc = "done"
    /\ \E code \in {0, 1} :
          procs' = [procs EXCEPT ![a] = [@ EXCEPT !.pc = "exited",
                                                   !.exit = code]]
    /\ UNCHANGED cascadeRest

\* hook run p returns after its loop, its agent runs having ended
HookReturn(p) ==
    /\ p \in DOMAIN procs
    /\ procs[p].kind = "hook"
    /\ procs[p].pc = "fixing"
    /\ \A q \in Children(p) : procs[q].pc = "exited"
    /\ \E code \in {0, 2} :
          procs' = [procs EXCEPT ![p] = [@ EXCEPT !.pc = "done",
                                                   !.exit = code]]
    /\ UNCHANGED cascadeRest

CascadeNext ==
    \E p \in 1..MaxProcs :
        \/ HookEntry(p)
        \/ StartAgent(p)
        \/ AgentEdit(p)
        \/ AgentExit(p)
        \/ HookReturn(p)

SpecCascade == InitCascade /\ [][CascadeNext]_vars

----------------------------------------------------------------------------
(* Properties of the hook runs *)

\* the hook runs started for the edit of an agent of the fixer
NestedHooks ==
    {p \in DOMAIN procs :
        /\ procs[p].kind = "hook"
        /\ procs[p].parent # 0}

\* C36: every agent run of the fixer has CLAUDE_CODE_FIX_IN_PROGRESS set in
\* its environment, and a hook run started for an edit of such an agent is
\* either at its first statement or has returned 0: it never lints or
\* fixes and starts no agent.
C36_NoCascade ==
    /\ \A a \in DOMAIN procs :
          procs[a].kind = "agent" => procs[a].env.fix_in_progress
    /\ \A p \in NestedHooks :
          /\ procs[p].pc \in {"entry", "done"}
          /\ procs[p].pc = "done" => procs[p].exit = 0
          /\ Children(p) = {}

\* a hook run without the variable has started a merge agent, and the hook
\* run started for an edit of that agent has returned 0
C36_Witness ==
    /\ ~procs[1].env.fix_in_progress
    /\ \E a \in DOMAIN procs : \E p \in NestedHooks :
          /\ procs[a].kind = "agent"
          /\ procs[a].by = "merge"
          /\ procs[p].parent = a
          /\ procs[p].pc = "done"
          /\ procs[p].exit = 0

----------------------------------------------------------------------------
(* AutoFixer.run_auto_fix (src/auto_fix.py) *)

\* calls of run_auto_fix for the file, one per iteration of main
MaxAutoFixCalls == 2

\* contents of the file: what the linter saw, what a fix command that runs
\* to its end writes, what one that is stopped midway has written
FileTexts == {0, 1, 2}

\* what run_auto_fix returns
AutoFixResult(fixed, message) == [fixed |-> fixed, message |-> message]

autoFixRest == <<clusterVars, predictVars, passVars, procs, fixerVars,
                 mainVars>>

InitAutoFix ==
    /\ af_pc = "call"
    /\ af_file \in {NoFile} \cup FileTexts
    /\ af_before = af_file
    /\ af_backup_path = FALSE
    /\ af_backup = NoFile
    /\ af_original = NoFile
    /\ af_result = <<>>
    /\ ClusterIdle
    /\ PredictIdle
    /\ PassIdle
    /\ CascadeIdle
    /\ FixerIdle
    /\ MainIdle

\* the file after "if backup_path and backup_path.exists():
\* shutil.copy2(backup_path, file_path)", cur being its content before
RestoreBackup(cur) ==
    IF af_backup_path /\ af_backup # NoFile THEN af_backup ELSE cur

\* create_backup: None when the file does not exist or the copy raises, else
\* the path of a new backup file that holds the content
CreateBackup ==
    /\ af_pc = "call"
    /\ \E copied \in BOOLEAN :
          IF af_file # NoFile /\ copied
          THEN af_backup_path' = TRUE /\ af_backup' = af_file
          ELSE af_backup_path' = FALSE /\ UNCHANGED af_backup
    /\ af_pc' = "read"
    /\ UNCHANGED <<af_file, af_before, af_original, af_result, autoFixRest>>

\* "Read original content": open raises when the file cannot be read
ReadOriginal ==
    /\ af_pc = "read"
    /\ \E readable \in BOOLEAN :
          IF af_file # NoFile /\ readable
          THEN /\ af_original' = af_file
               /\ af_pc' = "run"
               /\ UNCHANGED <<af_file, af_result>>
          ELSE /\ af_file' = RestoreBackup(af_file)
               /\ af_result' =
                     Append(af_result, AutoFixResult(FALSE, "Auto-fix failed"))
               /\ af_pc' = "done"
               /\ UNCHANGED af_original
    /\ UNCHANGED <<af_before, af_backup_path, af_backup, autoFixRest>>

\* subprocess.run(fix_cmd + [file_path], timeout=30): the command writes
\* the file or not, and ends, is stopped at the timeout, or cannot be run
RunFixCommand ==
    /\ af_pc = "run"
    /\ \E out \in {"exit", "timeout", "raise"} : \E written \in FileTexts :
          LET left == IF out = "raise" THEN af_file ELSE written IN
          IF out = "exit"
          THEN /\ af_file' = left
               /\ af_pc' = "compare"
               /\ UNCHANGED af_result
          ELSE /\ af_file' = RestoreBackup(left)
               /\ af_result' =
                     Append(af_result,
                            AutoFixResult(FALSE, IF out = "timeout"
                                                 THEN "Auto-fix timed out"
                                                 ELSE "Auto-fix failed"))
               /\ af_pc' = "done"
    /\ UNCHANGED <<af_before, af_backup_path, af_backup, af_original,
                   autoFixRest>>

\* "Read fixed content" and the comparison with original_content
CompareContent ==
    /\ af_pc = "compare"
    /\ \E readable \in BOOLEAN :
          IF ~readable
          THEN /\ af_file' = RestoreBackup(af_file)
               /\ af_result' =
                     Append(af_result, AutoFixResult(FALSE, "Auto-fix failed"))
          ELSE /\ af_result' =
                     Append(af_result,
                            IF af_original = af_file
                            THEN AutoFixResult(FALSE, "No fixes applied")
                            ELSE AutoFixResult(TRUE, "Auto-fixed"))
               /\ UNCHANGED af_file
    /\ af_pc' = "done"
    /\ UNCHANGED <<af_before, af_backup_path, af_backup, af_original,
                   autoFixRest>>

\* the call of run_auto_fix in the next iteration of main: a new backup
\* path, the locals of the call before are gone
AutoFixCall ==
    /\ af_pc = "done"
    /\ Len(af_result) < MaxAutoFixCalls
    /\ af_pc' = "call"
    /\ af_before' = af_file
    /\ af_backup_path' = FALSE
    /\ af_backup' = NoFile
    /\ af_original' = NoFile
    /\ UNCHANGED <<af_file, af_result, autoFixRest>>

AutoFixNext ==
    \/ CreateBackup
    \/ ReadOriginal
    \/ RunFixCommand
    \/ CompareContent
    \/ AutoFixCall

SpecAutoFix == InitAutoFix /\ [][AutoFixNext]_vars

----------------------------------------------------------------------------
(* Properties of run_auto_fix *)

\* C38 (as stated): when run_auto_fix returns fixed = False because the
\* command timed out or an exception was raised, the file has the content
\* it had when run_auto_fix was called.
C38_FailureRestoresFile ==
    (/\ af_pc = "done"
     /\ ~af_result[Len(af_result)].fixed
     /\ af_result[Len(af_result)].message
           \in {"Auto-fix timed out", "Auto-fix failed"})
        => af_file = af_before

============================================================================
